---- MODULE Spec2Model ----
(***************************************************************************)
(* Event production / consumption core of the task manager:                *)
(*   - events/schemas.py, events/publisher.py   (envelopes, sequence       *)
(*     allocator, publisher)                                               *)
(*   - routers/tasks.py                         (task mutation endpoints)  *)
(*   - services/audit                           (audit consumer)           *)
(*   - services/notification                    (reminder consumer)        *)
(*   - services/recurring-task                  (recurring-task consumer)  *)
(* Each subsystem has its own specification over its own group of          *)
(* variables; the other groups stay at their initial values.               *)
(***************************************************************************)
EXTENDS Integers, Sequences, FiniteSets, TLC

VARIABLES
    \* ---- events/publisher.py ----
    _sequence_counters, \* dict[str, int]: task id -> last sequence handed out
    uuid_counter,       \* number of uuid4() values drawn so far
    coros,              \* the publish_* coroutines in flight
    returned,           \* per counter key, the values _get_next_sequence returned, in call order (history)
    carried,            \* per task id, the sequence numbers of the envelopes built, in call order (history)
    publish_failed,     \* task ids for which some publish_event returned False (history)
    \* ---- services/audit ----
    audit_logs,         \* the audit_logs table: rows in insertion order
    db_users,           \* ids in the users table (audit_logs.user_id references it)
    db_tasks,           \* ids in the tasks table (audit_logs.task_id references it)
    deliveries,         \* deliveries of task events to the audit service
    \* ---- the two in-memory-ledger consumers ----
    service,            \* which of the two independent service processes the behaviour follows
    \* ---- services/notification ----
    processed_event_ids,\* consumer.processed_event_ids
    jobs,               \* the jobs API: job name -> pending one-time job
    reminder_state,     \* the state store: reminder:{task_id} -> value
    rem,                \* deliveries of reminder events to the notification service
    fire,               \* a callback of the jobs API for a reminder that is due
    notifier,           \* a call of notifiers send_email / send_push
    \* ---- services/recurring-task ----
    _processed_events,  \* consumer._processed_events
    created_tasks,      \* bodies of the task-create requests the backend answered with 201
    recur,              \* deliveries of task events to the recurring-task service
    calc,               \* a call of task_creator.calculate_next_due_date and its result
    \* ---- routers/tasks.py ----
    task_rows,          \* the tasks table: task id -> row
    requests,           \* HTTP requests to the task mutation endpoints
    \* ---- services/sync ----
    secret_key,         \* the BETTER_AUTH_SECRET of the sync service's environment
    active_connections, \* manager.active_connections: user id -> set of websockets
    ep,                 \* per websocket, its websocket_endpoint handler
    bc,                 \* a broadcast_to_user call
    live,               \* pairs (user, websocket) connected and not since disconnected (history)
    last_call,          \* the last call made on the manager directly (history)
    bc2,                \* a second broadcast_to_user call, running beside the first
    sync_ev,            \* the event POST /events/task-updates is handling
    sync_log            \* the events it has handled, in order (history)

pubVars == <<_sequence_counters, uuid_counter, coros, returned, carried, publish_failed>>

auditVars == <<audit_logs, db_users, db_tasks, deliveries>>

remVars == <<processed_event_ids, jobs, reminder_state, rem>>
recVars == <<_processed_events, created_tasks, recur>>
calcVars == <<calc>>
fireVars == <<fire>>
notifierVars == <<notifier>>
consumerVars == <<service, remVars, recVars, calcVars, fireVars, notifierVars>>

routerVars == <<task_rows, requests>>

syncEventVars == <<bc2, sync_ev, sync_log>>
syncVars == <<secret_key, active_connections, ep, bc, live, last_call, syncEventVars>>

vars == <<pubVars, auditVars, consumerVars, routerVars, syncVars>>
\* what the steps of one subsystem leave alone
notPub == <<auditVars, consumerVars, routerVars, syncVars>>
notAudit == <<pubVars, consumerVars, routerVars, syncVars>>
notRem == <<pubVars, auditVars, recVars, calcVars, fireVars, notifierVars, routerVars,
            syncVars>>
notRec == <<pubVars, auditVars, remVars, calcVars, fireVars, notifierVars, routerVars,
            syncVars>>
notCalc == <<pubVars, auditVars, service, remVars, recVars, fireVars, notifierVars,
             routerVars, syncVars>>
\* send_reminder_notification writes the state store
notFire == <<pubVars, auditVars, service, processed_event_ids, jobs, rem, recVars,
             calcVars, notifierVars, routerVars, syncVars>>
notNotifier == <<pubVars, auditVars, service, remVars, recVars, calcVars, fireVars,
                 routerVars, syncVars>>
\* the router's publish calls advance the publisher's sequence counters
notRouter == <<uuid_counter, coros, returned, carried, publish_failed, auditVars,
               consumerVars, syncVars>>
notSync == <<pubVars, auditVars, consumerVars, routerVars>>

(***************************************************************************)
(* Bounds of the model                                                     *)
(***************************************************************************)
NumCoros == 2       \* publish coroutines that can be in flight together
MaxCalls == 3       \* publish_* calls in one behaviour
NumDeliveries == 2  \* deliveries the audit service handles in one behaviour
NumRemDeliveries == 2   \* deliveries the notification service handles in one behaviour
NumRecDeliveries == 2   \* deliveries the recurring-task service handles in one behaviour
NumRequests == 2        \* requests the task router handles in one behaviour

(***************************************************************************)
(* Small universes the inputs are drawn from                               *)
(***************************************************************************)
TaskIds == {"t1", "t2"}
UserIds == {"u1"}
NoDate == 0                     \* None for a date
Get(d, k, default) == IF k \in DOMAIN d THEN d[k] ELSE default
Put(d, k, v) == [x \in DOMAIN d \cup {k} |-> IF x = k THEN v ELSE d[x]]
SeqToSet(s) == {s[i] : i \in 1..Len(s)}

(***************************************************************************)
(* events/schemas.py                                                       *)
(***************************************************************************)
TaskEventType == [CREATED |-> "com.todo.task.created",
                  UPDATED |-> "com.todo.task.updated",
                  COMPLETED |-> "com.todo.task.completed",
                  DELETED |-> "com.todo.task.deleted"]
TaskEventTypes == {TaskEventType.CREATED, TaskEventType.UPDATED,
                   TaskEventType.COMPLETED, TaskEventType.DELETED}
ReminderEventType == [SCHEDULE |-> "com.todo.reminder.schedule",
                      CANCEL |-> "com.todo.reminder.cancel"]
ReminderEventTypes == {ReminderEventType.SCHEDULE, ReminderEventType.CANCEL}
SyncEventType == [SYNC |-> "com.todo.task.sync"]

\* TaskEventPayload with its field defaults
TaskEventPayload(title, status, due_date, recurring_pattern, changed_fields) ==
    [title |-> title, description |-> "", status |-> status, priority |-> "medium",
     tags |-> {}, due_date |-> due_date, recurring_pattern |-> recurring_pattern,
     recurring_interval |-> 1, changed_fields |-> changed_fields]

\* uuid4(): the n-th draw yields a value no earlier draw yielded
uuid4(n) == n + 1

\* CloudEvent(...): the envelope; id defaults to a fresh uuid4 when not passed
CloudEvent(type, id, time, data, has_sequence) ==
    [specversion |-> "1.0", type |-> type, source |-> "backend-api", id |-> id,
     time |-> time, datacontenttype |-> "application/json", data |-> data,
     has_sequence |-> has_sequence]

\* mutant: the envelope is built without id=event_id, so the id field's
\* default factory draws a second uuid
create_task_event_default_id(event_type, task_id, user_id, sequence, payload, n) ==
    CloudEvent(event_type, uuid4(n + 1), 0,
               [task_id |-> task_id, user_id |-> user_id, sequence |-> sequence,
                idempotency_key |-> uuid4(n), payload |-> payload], TRUE)

\* CloudEvent.create_task_event; n is the number of uuids drawn before the call
create_task_event(event_type, task_id, user_id, sequence, payload, n) ==
    LET event_id == uuid4(n)
        data == [task_id |-> task_id, user_id |-> user_id, sequence |-> sequence,
                 idempotency_key |-> event_id, payload |-> payload]
    IN CloudEvent(event_type, event_id, 0, data, TRUE)

\* CloudEvent.create_reminder_event
create_reminder_event(event_type, task_id, user_id, due_date, reminder_time, n) ==
    CloudEvent(event_type, uuid4(n), 0,
               [task_id |-> task_id, user_id |-> user_id, due_date |-> due_date,
                reminder_time |-> reminder_time,
                notification_channels |-> {"email", "push"}], FALSE)

\* CloudEvent.create_sync_event
create_sync_event(task_id, user_id, sequence, changed_fields, n) ==
    CloudEvent(SyncEventType.SYNC, uuid4(n), 0,
               [task_id |-> task_id, user_id |-> user_id, sequence |-> sequence,
                changed_fields |-> changed_fields], TRUE)

NoEvent == CloudEvent("", 0, 0, [task_id |-> ""], FALSE)

(***************************************************************************)
(* events/publisher.py                                                     *)
(***************************************************************************)
TOPIC_TASK_EVENTS == "task-events"
TOPIC_REMINDERS == "reminders"
TOPIC_TASK_UPDATES == "task-updates"

\* mutant: the incremented value is returned but never stored
_get_next_sequence_not_stored(counters, task_id) ==
    [value |-> Get(counters, task_id, 0) + 1, counters |-> counters]

\* mutant: the counter of a task first seen starts one too high
_get_next_sequence_first_two(counters, task_id) ==
    LET next_seq == IF task_id \in DOMAIN counters THEN counters[task_id] + 1 ELSE 2
    IN [value |-> next_seq, counters |-> Put(counters, task_id, next_seq)]

\* _get_next_sequence: the value returned and the dict after the call.
\* The function has no await, so it runs without interleaving.
_get_next_sequence(counters, task_id) ==
    LET current == Get(counters, task_id, 0)
        next_seq == current + 1
    IN [value |-> next_seq, counters |-> Put(counters, task_id, next_seq)]

\* mutant: sync events count in a key space of their own
sequence_key_per_stream(stream, task_id) ==
    IF stream = "sync" THEN "sync:" \o task_id ELSE task_id

\* the key publish_task_event and publish_sync_event pass: str(task_id)
sequence_key(stream, task_id) == task_id

\* What the awaited POST of publish_event can end in
PostOutcomes == {"2xx", "5xx", "ConnectError", "TimeoutException", "TypeError"}
\* the exception leaving the try body, "" when none
RaisedBy(outcome) ==
    CASE outcome = "2xx" -> ""
      [] outcome = "5xx" -> "HTTPStatusError"   \* raise_for_status()
      [] OTHER -> outcome
\* TypeError stands for a failure of event.model_dump() / json encoding: no POST is sent
Posted(outcome) == outcome # "TypeError"

\* mutant: the handlers stop at HTTPStatusError (no catch-all)
publish_event_no_catch_all(outcome) ==
    LET exc == RaisedBy(outcome)
    IN CASE exc = "" -> [raised |-> FALSE, value |-> TRUE]
         [] exc = "ConnectError" -> [raised |-> FALSE, value |-> FALSE]
         [] exc = "HTTPStatusError" -> [raised |-> FALSE, value |-> FALSE]
         [] OTHER -> [raised |-> TRUE, value |-> FALSE]

\* publish_event: what the caller gets for an outcome of the POST
publish_event(outcome) ==
    LET exc == RaisedBy(outcome)
    IN CASE exc = "" -> [raised |-> FALSE, value |-> TRUE]
         [] exc = "ConnectError" -> [raised |-> FALSE, value |-> FALSE]
         [] exc = "HTTPStatusError" -> [raised |-> FALSE, value |-> FALSE]
         [] OTHER -> [raised |-> FALSE, value |-> FALSE]     \* except Exception

CoroIds == 1..NumCoros
IdleCoro == [pc |-> "idle", topic |-> "", event |-> NoEvent, outcome |-> "",
             raised |-> FALSE, value |-> FALSE, posts |-> 0]

PubPayloads == {TaskEventPayload("a", "completed", 60, "daily", {"status"})}
\* the (event type, task id) pairs publish_task_event is called with
PubTaskCalls == {<<TaskEventType.CREATED, "t1">>, <<TaskEventType.UPDATED, "t1">>,
                 <<TaskEventType.COMPLETED, "t2">>, <<TaskEventType.DELETED, "t2">>}
PubChangedFields == {[status |-> "completed"]}

InitPub ==
    /\ _sequence_counters = << >>
    /\ uuid_counter = 0
    /\ coros = [c \in CoroIds |-> IdleCoro]
    /\ returned = << >>
    /\ carried = << >>
    /\ publish_failed = {}

\* A call runs in the first free coroutine slot
FreeSlot(c) ==
    /\ coros[c].pc = "idle"
    /\ \A c2 \in CoroIds : c2 < c => coros[c2].pc # "idle"

\* The synchronous head of publish_event, up to `await client.post(...)`
AwaitPost(c, topic, event) ==
    /\ coros' = [coros EXCEPT ![c] = [IdleCoro EXCEPT !.pc = "posting",
                                                      !.topic = topic,
                                                      !.event = event]]
    /\ carried' = IF event.has_sequence
                  THEN Put(carried, event.data.task_id,
                           Append(Get(carried, event.data.task_id, << >>),
                                  event.data.sequence))
                  ELSE carried
    /\ uuid_counter' = uuid_counter + 1

Allocate(key) ==
    LET r == _get_next_sequence(_sequence_counters, key)
    IN /\ _sequence_counters' = r.counters
       /\ returned' = Put(returned, key, Append(Get(returned, key, << >>), r.value))

\* publish_task_event, up to the await inside publish_event
publish_task_event(c, event_type, task_id, user_id, payload) ==
    /\ FreeSlot(c)
    /\ uuid_counter < MaxCalls
    /\ LET key == sequence_key("task", task_id)
           sequence == _get_next_sequence(_sequence_counters, key).value
       IN /\ Allocate(key)
          /\ AwaitPost(c, TOPIC_TASK_EVENTS,
                       create_task_event(event_type, task_id, user_id, sequence,
                                         payload, uuid_counter))
    /\ UNCHANGED <<publish_failed, notPub>>

\* publish_sync_event, up to the await inside publish_event
publish_sync_event(c, task_id, user_id, changed_fields) ==
    /\ FreeSlot(c)
    /\ uuid_counter < MaxCalls
    /\ LET key == sequence_key("sync", task_id)
           sequence == _get_next_sequence(_sequence_counters, key).value
       IN /\ Allocate(key)
          /\ AwaitPost(c, TOPIC_TASK_UPDATES,
                       create_sync_event(task_id, user_id, sequence, changed_fields,
                                         uuid_counter))
    /\ UNCHANGED <<publish_failed, notPub>>

\* publish_reminder_event, up to the await inside publish_event
publish_reminder_event(c, event_type, task_id, user_id, due_date, reminder_time) ==
    /\ FreeSlot(c)
    /\ uuid_counter < MaxCalls
    /\ AwaitPost(c, TOPIC_REMINDERS,
                 create_reminder_event(event_type, task_id, user_id, due_date,
                                       reminder_time, uuid_counter))
    /\ UNCHANGED <<_sequence_counters, returned, publish_failed, notPub>>

\* The awaited POST ends and publish_event returns (or raises) to its caller
PublishEventReturns(c, outcome) ==
    /\ coros[c].pc = "posting"
    /\ LET r == publish_event(outcome)
       IN coros' = [coros EXCEPT ![c].pc = IF r.raised THEN "raised" ELSE "returned",
                                 ![c].outcome = outcome,
                                 ![c].event = NoEvent,
                                 ![c].raised = r.raised,
                                 ![c].value = r.value,
                                 ![c].posts = IF Posted(outcome) THEN 1 ELSE 0]
    /\ publish_failed' = IF publish_event(outcome).value
                         THEN publish_failed
                         ELSE publish_failed \cup {coros[c].event.data.task_id}
    /\ UNCHANGED <<_sequence_counters, uuid_counter, returned, carried, notPub>>

\* The caller takes the result; the coroutine slot is free again
CoroutineEnds(c) ==
    /\ coros[c].pc = "returned"
    /\ coros' = [coros EXCEPT ![c] = IdleCoro]
    /\ UNCHANGED <<_sequence_counters, uuid_counter, returned, carried, publish_failed, notPub>>

NextPub ==
    \/ \E c \in CoroIds, call \in PubTaskCalls, u \in UserIds, p \in PubPayloads :
          publish_task_event(c, call[1], call[2], u, p)
    \/ \E c \in CoroIds, t \in TaskIds, u \in UserIds, f \in PubChangedFields :
          publish_sync_event(c, t, u, f)
    \/ \E c \in CoroIds, ty \in ReminderEventTypes, u \in UserIds :
          publish_reminder_event(c, ty, "t1", u, 60, 45)
    \/ \E c \in CoroIds, o \in PostOutcomes : PublishEventReturns(c, o)
    \/ \E c \in CoroIds : CoroutineEnds(c)


(***************************************************************************)
(* services/audit: main.py, consumer.py, logger.py; models/audit_log.py    *)
(***************************************************************************)
Absent == "<absent>"            \* a key the JSON body does not have
NoTask == ""                    \* task_id None / NULL
ValidUuids == {"e1", "e2", "t1", "t2", "u1", "u2"}
ValidTimes == {"2024-01-15T10:30:00Z"}

AuditEvent(id, type, time, task_id, user_id) ==
    [id |-> id, source |-> "backend-api", type |-> type, time |-> time,
     data |-> [task_id |-> task_id, user_id |-> user_id]]

\* Events the transport delivers: two well-formed ones (e2 is the
\* task.deleted event of t2, whose row delete_task removed before publishing)
\* and malformed variants of the first
E1 == AuditEvent("e1", TaskEventType.CREATED, "2024-01-15T10:30:00Z", "t1", "u1")
E2 == AuditEvent("e2", TaskEventType.DELETED, "2024-01-15T10:30:00Z", "t2", "u1")
MalformedAuditEvents ==
    {[E1 EXCEPT !.id = Absent], [E1 EXCEPT !.id = ""], [E1 EXCEPT !.id = "not-a-uuid"],
     [E1 EXCEPT !.type = ""], [E1 EXCEPT !.time = ""], [E1 EXCEPT !.time = "yesterday"],
     [E1 EXCEPT !.data.user_id = ""],
     [E1 EXCEPT !.type = Absent], [E1 EXCEPT !.time = Absent]}
AuditEvents == {E1, E2} \cup MalformedAuditEvents
NoAuditEvent == AuditEvent("", "", "", "", "")

\* main.py CloudEvent(BaseModel): the request body parses when the required
\* keys are there; otherwise FastAPI answers 422 and the route is not entered
request_model_accepts(event) ==
    /\ event.id # Absent /\ event.source # Absent
    /\ event.type # Absent /\ event.time # Absent

\* consumer.handle_task_event, the checks before write_audit_log is awaited:
\* TRUE when the event goes on to write_audit_log, FALSE for `return False`
handle_task_event_validates(event) ==
    LET event_id_str == event.id
        event_type == event.type
        timestamp_str == event.time
        task_id_str == event.data.task_id
        user_id_str == event.data.user_id
    IN IF event_id_str = "" THEN FALSE
       ELSE IF event_type = "" THEN FALSE
       ELSE IF timestamp_str = "" THEN FALSE
       ELSE IF user_id_str = "" THEN FALSE
       ELSE IF ~(/\ event_id_str \in ValidUuids
                 /\ user_id_str \in ValidUuids
                 /\ (task_id_str # "" => task_id_str \in ValidUuids)) THEN FALSE
       ELSE IF timestamp_str \notin ValidTimes THEN FALSE
       ELSE TRUE

\* AuditLog(...) as write_audit_log builds it
AuditLog(event) ==
    [event_id |-> event.id, timestamp |-> event.time, user_id |-> event.data.user_id,
     event_type |-> event.type, task_id |-> event.data.task_id]

RowsFor(event_id) == {i \in 1..Len(audit_logs) : audit_logs[i].event_id = event_id}

\* mutant: event_id is declared without unique=True
insert_conflict_no_unique(row) ==
    \/ row.user_id \notin db_users
    \/ row.task_id # NoTask /\ row.task_id \notin db_tasks

\* The constraints of audit_logs that make the INSERT at commit raise
\* IntegrityError: event_id UNIQUE, user_id REFERENCES users(id),
\* task_id REFERENCES tasks(id)
insert_conflict(row) ==
    \/ RowsFor(row.event_id) # {}
    \/ row.user_id \notin db_users
    \/ row.task_id # NoTask /\ row.task_id \notin db_tasks

max_retries == 3
retry_delays == <<1, 5, 25>>

DeliveryIds == 1..NumDeliveries
IdleDelivery ==
    [pc |-> "idle", event |-> NoAuditEvent, attempt |-> 0, slept |-> << >>,
     returned |-> FALSE, success |-> FALSE, status_code |-> 0,
     \* history of this delivery
     after |-> {},          \* deliveries of the same id that had ended when this one began
     found_existing |-> FALSE, passed_check |-> FALSE, wrote |-> FALSE,
     conflict |-> FALSE, storage_error |-> FALSE,
     gave_up |-> FALSE]     \* the last attempt raised OperationalError

InitAudit ==
    /\ audit_logs = << >>
    /\ db_users = {"u1"}
    /\ db_tasks = {"t1"}
    /\ deliveries = [d \in DeliveryIds |-> IdleDelivery]

FreeDelivery(d) ==
    /\ deliveries[d].pc = "idle"
    /\ \A d2 \in DeliveryIds : d2 < d => deliveries[d2].pc # "idle"

\* handle_task_event returns `success`; receive_task_event answers 200 either way
Ack(rec, success) ==
    [rec EXCEPT !.pc = "done", !.returned = TRUE, !.success = success,
                !.status_code = 200]

\* POST /events/task-events up to the first await of write_audit_log
receive_task_event(d, event) ==
    /\ FreeDelivery(d)
    /\ LET started == [IdleDelivery EXCEPT
                          !.event = event,
                          !.after = {d2 \in DeliveryIds :
                                        /\ deliveries[d2].pc = "done"
                                        /\ deliveries[d2].event.id = event.id}]
       IN deliveries' = [deliveries EXCEPT ![d] =
             IF ~request_model_accepts(event)
             THEN [started EXCEPT !.pc = "done", !.status_code = 422]
             ELSE IF ~handle_task_event_validates(event)
             THEN Ack(started, FALSE)
             ELSE [started EXCEPT !.pc = "select"]]
    /\ UNCHANGED <<audit_logs, db_users, db_tasks, notAudit>>

\* mutant: a further sleep and attempt follow the third failure
OnOperationalError_one_more(rec) ==
    IF rec.attempt < max_retries
    THEN [rec EXCEPT !.pc = "sleep", !.storage_error = TRUE,
                     !.slept = Append(rec.slept, retry_delays[rec.attempt + 1])]
    ELSE [Ack(rec, FALSE) EXCEPT !.storage_error = TRUE, !.gave_up = TRUE]

\* except OperationalError: sleep and retry while attempts remain, else False
OnOperationalError(rec) ==
    IF rec.attempt < max_retries - 1
    THEN [rec EXCEPT !.pc = "sleep", !.storage_error = TRUE,
                     !.slept = Append(rec.slept, retry_delays[rec.attempt + 1])]
    ELSE [Ack(rec, FALSE) EXCEPT !.storage_error = TRUE, !.gave_up = TRUE]

StorageOutcomes == {"ok", "OperationalError", "Exception"}

\* write_audit_log: `await session.execute(select ...)` returns or raises
SelectReturns(d, outcome) ==
    /\ deliveries[d].pc = "select"
    /\ LET rec == deliveries[d]
           existing_log == RowsFor(rec.event.id) # {}
       IN deliveries' = [deliveries EXCEPT ![d] =
             CASE outcome = "OperationalError" -> OnOperationalError(rec)
               [] outcome = "Exception" ->
                    [Ack(rec, FALSE) EXCEPT !.storage_error = TRUE]
               [] OTHER ->
                    IF existing_log
                    THEN [Ack(rec, TRUE) EXCEPT !.found_existing = TRUE]
                    ELSE [rec EXCEPT !.pc = "commit", !.passed_check = TRUE]]
    /\ UNCHANGED <<audit_logs, db_users, db_tasks, notAudit>>

\* write_audit_log: `await session.commit()` returns or raises
CommitReturns(d, outcome) ==
    /\ deliveries[d].pc = "commit"
    /\ LET rec == deliveries[d]
           row == AuditLog(rec.event)
       IN CASE outcome = "OperationalError" ->
                 /\ deliveries' = [deliveries EXCEPT ![d] = OnOperationalError(rec)]
                 /\ UNCHANGED audit_logs
            [] outcome = "Exception" ->
                 /\ deliveries' = [deliveries EXCEPT ![d] =
                        [Ack(rec, FALSE) EXCEPT !.storage_error = TRUE]]
                 /\ UNCHANGED audit_logs
            [] OTHER ->
                 IF insert_conflict(row)
                 THEN \* except IntegrityError: return True
                      /\ deliveries' = [deliveries EXCEPT ![d] =
                             [Ack(rec, TRUE) EXCEPT !.conflict = TRUE]]
                      /\ UNCHANGED audit_logs
                 ELSE /\ audit_logs' = Append(audit_logs, row)
                      /\ deliveries' = [deliveries EXCEPT ![d] =
                             [Ack(rec, TRUE) EXCEPT !.wrote = TRUE]]
    /\ UNCHANGED <<db_users, db_tasks, notAudit>>

\* asyncio.sleep(delay) ends; the loop goes to its next attempt
SleepEnds(d) ==
    /\ deliveries[d].pc = "sleep"
    /\ deliveries' = [deliveries EXCEPT ![d].pc = "select",
                                        ![d].attempt = deliveries[d].attempt + 1]
    /\ UNCHANGED <<audit_logs, db_users, db_tasks, notAudit>>

\* delete_task commits the deletion of a task row (ON DELETE SET NULL)
TaskRowDeleted(t) ==
    /\ t \in db_tasks
    /\ db_tasks' = db_tasks \ {t}
    /\ audit_logs' = [i \in 1..Len(audit_logs) |->
                        IF audit_logs[i].task_id = t
                        THEN [audit_logs[i] EXCEPT !.task_id = NoTask]
                        ELSE audit_logs[i]]
    /\ UNCHANGED <<db_users, deliveries, notAudit>>

NextAudit ==
    \/ \E d \in DeliveryIds, e \in AuditEvents : receive_task_event(d, e)
    \/ \E d \in DeliveryIds, o \in StorageOutcomes : SelectReturns(d, o)
    \/ \E d \in DeliveryIds, o \in StorageOutcomes : CommitReturns(d, o)
    \/ \E d \in DeliveryIds : SleepEnds(d)
    \/ \E t \in TaskIds : TaskRowDeleted(t)

(***************************************************************************)
(* services/notification: main.py, consumer.py, scheduler.py               *)
(***************************************************************************)
NoService == "<none>"           \* no event was delivered yet
NoTime == 0                     \* reminder_time / due_date missing
ReminderEvent(id, type, task_id, reminder_time) ==
    [id |-> id, type |-> type,
     data |-> [task_id |-> task_id, user_id |-> "u1", reminder_time |-> reminder_time,
               due_date |-> IF reminder_time = NoTime THEN NoTime ELSE reminder_time + 15]]

\* Events the transport delivers on the reminders topic; every event that has
\* an id has one of its own
ReminderEvents ==
    {ReminderEvent("r1", ReminderEventType.SCHEDULE, "t1", 45),
     ReminderEvent("r2", ReminderEventType.CANCEL, "t1", 60),
     ReminderEvent("r3", ReminderEventType.SCHEDULE, "t1", 105),
     ReminderEvent("r4", ReminderEventType.SCHEDULE, "", 45),
     ReminderEvent("r5", ReminderEventType.SCHEDULE, "t1", NoTime),
     ReminderEvent("r6", ReminderEventType.CANCEL, "", 60),
     ReminderEvent("r7", "com.todo.reminder.snooze", "t1", 45),
     ReminderEvent("r8", "", "t1", 45),
     ReminderEvent("", ReminderEventType.SCHEDULE, "t1", 45)}
NoReminderEvent == ReminderEvent("", "", "", NoTime)

RemIds == 1..NumRemDeliveries
IdleRem ==
    [pc |-> "idle", event |-> NoReminderEvent, status_code |-> 0, status |-> "",
     raised |-> FALSE,
     \* history of this delivery
     after_success |-> FALSE,   \* an earlier delivery of this event id had ended in success
     job_calls |-> 0,           \* requests this delivery sent to the jobs API
     job_done |-> 0,            \* of these, the ones the jobs API carried out
     posted |-> 0,              \* the rank of its request among those carried out
     delete_status |-> 0,       \* the status the jobs API answered its DELETE with
     saved |-> FALSE]           \* the state store accepted its write

InitRem ==
    /\ processed_event_ids = {}
    /\ jobs = << >>
    /\ reminder_state = << >>
    /\ rem = [d \in RemIds |-> IdleRem]

FreeRem(d) ==
    /\ rem[d].pc = "idle"
    /\ \A d2 \in RemIds : d2 < d => rem[d2].pc # "idle"

\* mutant: the id is never recorded
mark_processed_never(ids, event_id) == ids

\* processed_event_ids.add(event_id)
mark_processed(ids, event_id) == ids \cup {event_id}

\* handle_reminder_event returned: the route answers 200 {"status": "success"}
RemSuccess(rec) == [rec EXCEPT !.pc = "done", !.status_code = 200, !.status = "success"]
\* handle_reminder_event raised: the route's except answers 200 {"status": "error"}
RemError(rec) ==
    [rec EXCEPT !.pc = "done", !.status_code = 200, !.status = "error", !.raised = TRUE]

\* POST /events/reminders and handle_reminder_event up to its first await
handle_reminders_event(d, event) ==
    /\ service \in {NoService, "notification"}
    /\ service' = "notification"
    /\ FreeRem(d)
    /\ LET event_id == event.id
           event_type == event.type
           task_id == event.data.task_id
           reminder_time == event.data.reminder_time
           started == [IdleRem EXCEPT
                          !.event = event,
                          !.after_success =
                              /\ event_id # ""
                              /\ \E d2 \in RemIds :
                                    /\ rem[d2].pc = "done" /\ rem[d2].status = "success"
                                    /\ rem[d2].event.id = event_id]
           marked == mark_processed(processed_event_ids, event_id)
       IN IF event_type = ""
          THEN \* main.py: 400, handle_reminder_event is not called
               /\ rem' = [rem EXCEPT ![d] = [started EXCEPT !.pc = "done",
                                                            !.status_code = 400]]
               /\ UNCHANGED processed_event_ids
          ELSE IF event_id = "" \/ event_id \in processed_event_ids
          THEN /\ rem' = [rem EXCEPT ![d] = RemSuccess(started)]
               /\ UNCHANGED processed_event_ids
          ELSE IF event_type = ReminderEventType.SCHEDULE
          THEN IF task_id = "" \/ reminder_time = NoTime
               THEN \* handle_schedule_event returns early; the id is recorded
                    /\ rem' = [rem EXCEPT ![d] = RemSuccess(started)]
                    /\ processed_event_ids' = marked
               ELSE /\ rem' = [rem EXCEPT ![d] = [started EXCEPT !.pc = "job_post",
                                                                 !.job_calls = 1]]
                    /\ UNCHANGED processed_event_ids
          ELSE IF event_type = ReminderEventType.CANCEL
          THEN IF task_id = ""
               THEN /\ rem' = [rem EXCEPT ![d] = RemSuccess(started)]
                    /\ processed_event_ids' = marked
               ELSE /\ rem' = [rem EXCEPT ![d] = [started EXCEPT !.pc = "job_delete",
                                                                 !.job_calls = 1]]
                    /\ UNCHANGED processed_event_ids
          ELSE \* unknown event type: return without recording the id
               /\ rem' = [rem EXCEPT ![d] = RemSuccess(started)]
               /\ UNCHANGED processed_event_ids
    /\ UNCHANGED <<jobs, reminder_state, notRem>>

JobsApiOutcomes == {"answered", "5xx", "ConnectError"}

\* job_name = f"reminder-{task_id}"
job_name(task_id) == <<"reminder", task_id>>

\* handle_schedule_event: the task data put into the job
reminder_task_data(data) ==
    [task_id |-> data.task_id, user_id |-> data.user_id, due_date |-> data.due_date]

\* mutant: the job is scheduled at the due date
job_payload_at_due_date(reminder_time, data) ==
    [schedule |-> data.due_date, data |-> data, repeats |-> 0]

\* schedule_reminder: the body of the request to the jobs API
job_payload(reminder_time, data) ==
    [schedule |-> reminder_time, data |-> data, repeats |-> 0]

\* the rank of the next request the jobs API carries out
NextRank ==
    1 + Cardinality({d \in RemIds : rem[d].posted > 0})

\* schedule_reminder: the awaited POST /v1.0-alpha1/jobs/reminder-{task_id} ends
JobPostReturns(d, outcome) ==
    /\ rem[d].pc = "job_post"
    /\ LET data == rem[d].event.data
       IN IF outcome = "answered"
          THEN /\ jobs' = Put(jobs, job_name(data.task_id),
                              job_payload(data.reminder_time, reminder_task_data(data)))
               /\ rem' = [rem EXCEPT ![d].pc = "save_scheduled", ![d].job_done = 1,
                                     ![d].posted = NextRank]
          ELSE \* raise_for_status() or the client raises; schedule_reminder re-raises
               /\ rem' = [rem EXCEPT ![d] = RemError(rem[d])]
               /\ UNCHANGED jobs
    /\ UNCHANGED <<service, processed_event_ids, reminder_state, notRem>>

\* mutant: a 404 goes to raise_for_status()
cancel_accepts_only_204(status_code) == status_code = 204

\* cancel_reminder: 204 and 404 go on to the state update, any other status
\* goes to raise_for_status()
cancel_accepts(status_code) == status_code \in {204, 404}

\* cancel_reminder: the awaited DELETE /v1.0-alpha1/jobs/reminder-{task_id} ends
\* (204 when the job was there, 404 when it was not)
JobDeleteReturns(d, outcome) ==
    /\ rem[d].pc = "job_delete"
    /\ LET name == job_name(rem[d].event.data.task_id)
           status_code == IF name \in DOMAIN jobs THEN 204 ELSE 404
       IN IF outcome = "answered" /\ cancel_accepts(status_code)
          THEN /\ jobs' = [n \in DOMAIN jobs \ {name} |-> jobs[n]]
               /\ rem' = [rem EXCEPT ![d].pc = "save_cancelled", ![d].job_done = 1,
                                     ![d].posted = NextRank,
                                     ![d].delete_status = status_code]
          ELSE /\ rem' = [rem EXCEPT ![d] =
                             RemError([rem[d] EXCEPT
                                 !.delete_status = IF outcome = "answered"
                                                   THEN status_code ELSE 0])]
               /\ UNCHANGED jobs
    /\ UNCHANGED <<service, processed_event_ids, reminder_state, notRem>>

\* save_reminder_state: the awaited POST to the state store ends; a failure is
\* logged and swallowed. Back in handle_reminder_event the id is recorded.
SaveStateReturns(d, saved) ==
    /\ rem[d].pc \in {"save_scheduled", "save_cancelled"}
    /\ LET data == rem[d].event.data
           value == IF rem[d].pc = "save_scheduled"
                    THEN [task_id |-> data.task_id, status |-> "scheduled",
                          reminder_time |-> data.reminder_time]
                    ELSE [task_id |-> data.task_id, status |-> "cancelled",
                          reminder_time |-> NoTime]
       IN reminder_state' = IF saved THEN Put(reminder_state, data.task_id, value)
                            ELSE reminder_state
    /\ processed_event_ids' = mark_processed(processed_event_ids, rem[d].event.id)
    /\ rem' = [rem EXCEPT ![d] = RemSuccess([rem[d] EXCEPT !.saved = saved])]
    /\ UNCHANGED <<service, jobs, notRem>>

NextRem ==
    \/ \E d \in RemIds, e \in ReminderEvents : handle_reminders_event(d, e)
    \/ \E d \in RemIds, o \in JobsApiOutcomes : JobPostReturns(d, o)
    \/ \E d \in RemIds, o \in JobsApiOutcomes : JobDeleteReturns(d, o)
    \/ \E d \in RemIds, saved \in BOOLEAN : SaveStateReturns(d, saved)

\* ---- POST /jobs/reminder-{task_id}: send_reminder_notification ----
MaxTokens == 2
NoEmail == ""                   \* user_email None
DeviceTokens == <<"k1", "k2", "k3">>
\* device_tokens: the lists of up to n tokens
TokenLists(n) == {SubSeq(DeviceTokens, 1, m) : m \in 0..n}
JobData(user_email, device_tokens, notification_channels) ==
    [empty |-> FALSE, user_email |-> user_email, device_tokens |-> device_tokens,
     notification_channels |-> notification_channels]
\* the callback body has no "data"
NoJobData == [empty |-> TRUE, user_email |-> NoEmail, device_tokens |-> << >>,
              notification_channels |-> {}]
JobDatas ==
    {NoJobData} \cup
    {JobData(e, l, c) : e \in {NoEmail, "a@x"},
                        l \in TokenLists(MaxTokens),
                        c \in SUBSET {"email", "push"}}
NoStateValue == [task_id |-> "", status |-> "", success_count |-> 0, total_count |-> 0]
IdleFire ==
    [pc |-> "idle", task_id |-> "", job_data |-> NoJobData, i |-> 0,
     success_count |-> 0, total_count |-> 0, status_code |-> 0, status |-> "",
     \* history of this callback
     sends |-> << >>,           \* the send_email / send_push calls and their results
     written |-> NoStateValue,  \* the value handed to save_reminder_state
     saved |-> FALSE]           \* the state store accepted it
InitFire == fire = IdleFire

\* mutant: the email is attempted whether or not an address is known
wants_email_without_address(job_data) == "email" \in job_data.notification_channels

\* if "email" in notification_channels and user_email
wants_email(job_data) ==
    "email" \in job_data.notification_channels /\ job_data.user_email # NoEmail

\* if "push" in notification_channels and device_tokens
wants_push(job_data) ==
    "push" \in job_data.notification_channels /\ job_data.device_tokens # << >>

\* send_reminder_notification after the email branch: the first send_push is
\* awaited, or the state is written
AfterEmail(f) ==
    IF wants_push(f.job_data)
    THEN [f EXCEPT !.pc = "push", !.i = 1, !.total_count = @ + 1]
    ELSE [f EXCEPT !.pc = "save"]

\* POST /jobs/reminder-{task_id} and send_reminder_notification up to its
\* first await
handle_reminder_job(task_id, job_data) ==
    /\ fire.pc = "idle"
    /\ LET started == [IdleFire EXCEPT !.task_id = task_id, !.job_data = job_data]
       IN fire' = IF job_data.empty
                  THEN [started EXCEPT !.pc = "done", !.status_code = 200,
                                       !.status = "no_data"]
                  ELSE IF wants_email(job_data)
                  THEN [started EXCEPT !.pc = "email", !.total_count = 1]
                  ELSE AfterEmail(started)
    /\ UNCHANGED <<reminder_state, notFire>>

Sent(f, channel, to, ok) ==
    [f EXCEPT !.success_count = IF ok THEN @ + 1 ELSE @,
              !.sends = Append(@, [channel |-> channel, to |-> to, ok |-> ok])]

\* the awaited send_email returns
SendEmailReturns(ok) ==
    /\ fire.pc = "email"
    /\ fire' = AfterEmail(Sent(fire, "email", fire.job_data.user_email, ok))
    /\ UNCHANGED <<reminder_state, notFire>>

\* the awaited send_push returns; the loop goes to the next token
SendPushReturns(ok) ==
    /\ fire.pc = "push"
    /\ LET f == Sent(fire, "push", fire.job_data.device_tokens[fire.i], ok)
       IN fire' = IF fire.i < Len(fire.job_data.device_tokens)
                  THEN [f EXCEPT !.i = @ + 1, !.total_count = @ + 1]
                  ELSE [f EXCEPT !.pc = "save"]
    /\ UNCHANGED <<reminder_state, notFire>>

\* save_reminder_state returns; a failure is logged and swallowed; the route
\* answers 200 {"status": "success"}
FireSaveStateReturns(saved) ==
    /\ fire.pc = "save"
    /\ LET value == [task_id |-> fire.task_id, status |-> "sent",
                     success_count |-> fire.success_count,
                     total_count |-> fire.total_count]
       IN /\ reminder_state' = IF saved THEN Put(reminder_state, fire.task_id, value)
                               ELSE reminder_state
          /\ fire' = [fire EXCEPT !.pc = "done", !.status_code = 200,
                                  !.status = "success", !.written = value,
                                  !.saved = saved]
    /\ UNCHANGED notFire

NextFire ==
    \/ \E job_data \in JobDatas : handle_reminder_job("t1", job_data)
    \/ \E ok \in BOOLEAN : SendEmailReturns(ok)
    \/ \E ok \in BOOLEAN : SendPushReturns(ok)
    \/ \E saved \in BOOLEAN : FireSaveStateReturns(saved)

\* ---- notifiers/email.py send_email, notifiers/push.py send_push ----
NOTIFIER_RETRY_DELAYS == <<1, 5, 25>>
NoResult == "<running>"
IdleNotifier ==
    [pc |-> "idle", channel |-> "", configured |-> FALSE, to |-> "", attempt |-> 0,
     result |-> NoResult,
     \* history of this call
     outcomes |-> << >>,        \* what the provider answered, attempt by attempt
     slept |-> << >>]           \* the delays slept
InitNotifier == notifier = IdleNotifier

\* send_email / send_push are called; `configured`: the provider's key
\* (SENDGRID_API_KEY, FCM_SERVER_KEY) is set
send_notification(channel, configured, to) ==
    /\ notifier.pc = "idle"
    /\ LET n == [IdleNotifier EXCEPT !.channel = channel, !.configured = configured,
                                     !.to = to]
       IN notifier' =
             IF ~configured
             THEN [n EXCEPT !.pc = "returned", !.result = "True"]     \* mock mode
             ELSE IF to = ""
             THEN [n EXCEPT !.pc = "returned", !.result = "False"]
             ELSE [n EXCEPT !.pc = "posting", !.attempt = 1]
    /\ UNCHANGED notNotifier

\* what SendGrid answers, and what FCM answers (for FCM also an error named in
\* the body of a 200)
ProviderOutcomes(channel) ==
    {"2xx", "4xx", "5xx", "NetworkError"} \cup
    (IF channel = "push" THEN {"InvalidRegistration", "NotRegistered", "Unavailable"}
     ELSE {})

\* mutant: a client error is retried like a server error
is_permanent_failure_none(outcome) == FALSE

\* 400 <= status_code < 500, or error in ["InvalidRegistration", "NotRegistered"]
is_permanent_failure(outcome) ==
    outcome \in {"4xx", "InvalidRegistration", "NotRegistered"}

\* the awaited POST to the provider ends
ProviderAnswers(outcome) ==
    /\ notifier.pc = "posting"
    /\ outcome \in ProviderOutcomes(notifier.channel)
    /\ LET n == [notifier EXCEPT !.outcomes = Append(@, outcome)]
       IN notifier' =
             IF outcome = "2xx"
             THEN [n EXCEPT !.pc = "returned", !.result = "True"]
             ELSE IF is_permanent_failure(outcome)
             THEN [n EXCEPT !.pc = "returned", !.result = "False"]
             ELSE IF notifier.attempt < Len(NOTIFIER_RETRY_DELAYS)
             THEN [n EXCEPT !.pc = "sleeping",
                            !.slept = Append(@, NOTIFIER_RETRY_DELAYS[notifier.attempt])]
             ELSE [n EXCEPT !.pc = "returned", !.result = "False"]
    /\ UNCHANGED notNotifier

\* asyncio.sleep(delay) ends; the loop makes its next attempt
NotifierSleepEnds ==
    /\ notifier.pc = "sleeping"
    /\ notifier' = [notifier EXCEPT !.pc = "posting", !.attempt = @ + 1]
    /\ UNCHANGED notNotifier

NextNotifier ==
    \/ \E channel \in {"email", "push"}, configured \in BOOLEAN, to \in {"", "x"} :
          send_notification(channel, configured, to)
    \/ \E outcome \in ProviderOutcomes("push") : ProviderAnswers(outcome)
    \/ NotifierSleepEnds

(***************************************************************************)
(* services/recurring-task: main.py, consumer.py, task_creator.py          *)
(***************************************************************************)
Date(y, m, d, hh) == [y |-> y, m |-> m, d |-> d, hh |-> hh]
NoDateTime == Date(0, 0, 0, 0)
\* A due_date string of an event payload: absent/empty, not ISO, or ISO
DueMissing == [present |-> FALSE, iso |-> FALSE, date |-> NoDateTime]
DueGarbled == [present |-> TRUE, iso |-> FALSE, date |-> NoDateTime]
DueIso(date) == [present |-> TRUE, iso |-> TRUE, date |-> date]

IsLeap(y) == (y % 4 = 0 /\ y % 100 # 0) \/ y % 400 = 0
DaysInMonth(y, m) ==
    IF m = 2 THEN (IF IsLeap(y) THEN 29 ELSE 28)
    ELSE IF m \in {4, 6, 9, 11} THEN 30 ELSE 31
NextDay(dt) ==
    IF dt.d < DaysInMonth(dt.y, dt.m) THEN [dt EXCEPT !.d = dt.d + 1]
    ELSE IF dt.m < 12 THEN [dt EXCEPT !.d = 1, !.m = dt.m + 1]
    ELSE [dt EXCEPT !.d = 1, !.m = 1, !.y = dt.y + 1]
RECURSIVE timedelta_days(_, _)
\* current + timedelta(days=n)
timedelta_days(dt, n) == IF n = 0 THEN dt ELSE timedelta_days(NextDay(dt), n - 1)
Min(a, b) == IF a < b THEN a ELSE b
\* mutant: a day the target month does not have runs over into the month after
relativedelta_month_overflowing(dt) ==
    LET y == IF dt.m = 12 THEN dt.y + 1 ELSE dt.y
        m == IF dt.m = 12 THEN 1 ELSE dt.m + 1
    IN IF dt.d <= DaysInMonth(y, m) THEN [dt EXCEPT !.y = y, !.m = m]
       ELSE [dt EXCEPT !.y = y, !.m = m + 1, !.d = dt.d - DaysInMonth(y, m)]

\* current + relativedelta(months=1): the day is clamped to the target month
relativedelta_month(dt) ==
    LET y == IF dt.m = 12 THEN dt.y + 1 ELSE dt.y
        m == IF dt.m = 12 THEN 1 ELSE dt.m + 1
    IN [dt EXCEPT !.y = y, !.m = m, !.d = Min(dt.d, DaysInMonth(y, m))]
\* current + relativedelta(years=1)
relativedelta_year(dt) ==
    [dt EXCEPT !.y = dt.y + 1, !.d = Min(dt.d, DaysInMonth(dt.y + 1, dt.m))]

NullPattern == "<null>"         \* "recurring_pattern": null
\* str.lower() on the patterns of the model
lower(pattern) ==
    IF pattern = "DAILY" THEN "daily"
    ELSE IF pattern = "Weekly" THEN "weekly"
    ELSE IF pattern = "Monthly" THEN "monthly"
    ELSE IF pattern = "YEARLY" THEN "yearly"
    ELSE pattern

\* mutant: a pattern that is not recognised is taken for daily
calculate_next_due_date_default_daily(current_due_date, pattern) ==
    IF ~current_due_date.present \/ ~current_due_date.iso
    THEN [raised |-> FALSE, value |-> DueMissing]
    ELSE [raised |-> FALSE,
          value |-> DueIso(IF lower(pattern) = "weekly"
                           THEN timedelta_days(current_due_date.date, 7)
                           ELSE IF lower(pattern) = "monthly"
                           THEN relativedelta_month(current_due_date.date)
                           ELSE IF lower(pattern) = "yearly"
                           THEN relativedelta_year(current_due_date.date)
                           ELSE timedelta_days(current_due_date.date, 1))]

\* [raised, value]: value.present is FALSE where the code returns None
calculate_next_due_date(current_due_date, pattern) ==
    LET none == [raised |-> FALSE, value |-> DueMissing]
        some(date) == [raised |-> FALSE, value |-> DueIso(date)]
        current == current_due_date.date
    IN IF ~current_due_date.present THEN none
       ELSE IF ~current_due_date.iso THEN none
       ELSE IF pattern = NullPattern
       THEN [raised |-> TRUE, value |-> DueMissing]     \* None.lower(): AttributeError
       ELSE IF lower(pattern) = "daily" THEN some(timedelta_days(current, 1))
       ELSE IF lower(pattern) = "weekly" THEN some(timedelta_days(current, 7))
       ELSE IF lower(pattern) = "monthly" THEN some(relativedelta_month(current))
       ELSE IF lower(pattern) = "yearly" THEN some(relativedelta_year(current))
       ELSE none

MAX_RETRIES == 3
RETRY_DELAYS == <<1, 5, 25>>

RecEvent(id, type, user_id, title, recurring_pattern, due_date) ==
    [id |-> id, type |-> type,
     data |-> [task_id |-> "t1", user_id |-> user_id,
               payload |-> [title |-> title, recurring_pattern |-> recurring_pattern,
                            due_date |-> due_date]]]
Jan31 == DueIso(Date(2024, 1, 31, 10))
Feb29 == DueIso(Date(2024, 2, 29, 10))
Dec31 == DueIso(Date(2023, 12, 31, 10))
\* Events the transport delivers on the task-events topic; every event that
\* has an id has one of its own
RecEvents ==
    {RecEvent("c1", TaskEventType.COMPLETED, "u1", "Water", "daily", Dec31),
     RecEvent("c2", TaskEventType.COMPLETED, "u1", "Rent", "monthly", Jan31),
     RecEvent("c3", TaskEventType.COMPLETED, "u1", "Leap", "yearly", Feb29),
     RecEvent("c4", TaskEventType.COMPLETED, "u1", "Gym", "Weekly", Jan31),
     RecEvent("c5", TaskEventType.COMPLETED, "u1", "Once", "none", Jan31),
     RecEvent("c6", TaskEventType.CREATED, "u1", "Water", "daily", Dec31),
     RecEvent("c7", TaskEventType.COMPLETED, "u1", "Water", "daily", DueMissing),
     RecEvent("c8", TaskEventType.COMPLETED, "u1", "Water", "daily", DueGarbled),
     RecEvent("c9", TaskEventType.COMPLETED, "u1", "Water", "hourly", Dec31),
     RecEvent("c10", TaskEventType.COMPLETED, "u1", "Water", NullPattern, Dec31),
     RecEvent("c11", TaskEventType.COMPLETED, "", "Water", "daily", Dec31),
     RecEvent("c12", TaskEventType.COMPLETED, "u1", "", "daily", Dec31),
     RecEvent("", TaskEventType.COMPLETED, "u1", "Water", "daily", Dec31)}
NoRecEvent == RecEvent("", "", "", "", "none", DueMissing)
NoTaskData == [user_id |-> "", title |-> "", recurrence |-> "none", due_date |-> NoDateTime]

RecIds == 1..NumRecDeliveries
IdleRec ==
    [pc |-> "idle", event |-> NoRecEvent, task_data |-> NoTaskData, attempt |-> 0,
     status_code |-> 0, status |-> "",
     \* history of this delivery
     after_success |-> FALSE,   \* an earlier delivery of this event id had ended in success
     create_calls |-> 0,        \* task-create requests this delivery sent
     created |-> 0,             \* of these, the ones answered with 201
     slept |-> << >>,           \* the delays slept between the requests
     rejected |-> ""]           \* the 4xx status of the last answer of the task API, if it was one

InitRec ==
    /\ _processed_events = {}
    /\ created_tasks = << >>
    /\ recur = [d \in RecIds |-> IdleRec]

FreeRec(d) ==
    /\ recur[d].pc = "idle"
    /\ \A d2 \in RecIds : d2 < d => recur[d2].pc # "idle"

\* handle_task_event returned True: 200 {"status": "processed"}
RecProcessed(r) == [r EXCEPT !.pc = "done", !.status_code = 200, !.status = "processed"]
\* handle_task_event returned False: 200 {"status": "failed"}
RecFailed(r) == [r EXCEPT !.pc = "done", !.status_code = 200, !.status = "failed"]

\* POST /events/task-events, handle_task_event and create_next_task_occurrence
\* up to the first awaited client.post
recurring_receive_task_event(d, event) ==
    /\ service \in {NoService, "recurring-task"}
    /\ service' = "recurring-task"
    /\ FreeRec(d)
    /\ LET event_id == event.id
           payload == event.data.payload
           user_id == event.data.user_id
           recurring_pattern == IF payload.recurring_pattern = "" THEN "none"
                                ELSE payload.recurring_pattern
           next_due_date == calculate_next_due_date(payload.due_date,
                                                    payload.recurring_pattern)
           started == [IdleRec EXCEPT
                          !.event = event,
                          !.after_success =
                              /\ event_id # ""
                              /\ \E d2 \in RecIds :
                                    /\ recur[d2].pc = "done" /\ recur[d2].status = "processed"
                                    /\ recur[d2].event.id = event_id]
       IN IF event_id = ""
          THEN /\ recur' = [recur EXCEPT ![d] = RecFailed(started)]
               /\ UNCHANGED _processed_events
          ELSE IF event_id \in _processed_events
          THEN /\ recur' = [recur EXCEPT ![d] = RecProcessed(started)]
               /\ UNCHANGED _processed_events
          ELSE IF event.type # TaskEventType.COMPLETED \/ recurring_pattern = "none"
          THEN /\ recur' = [recur EXCEPT ![d] = RecProcessed(started)]
               /\ _processed_events' = _processed_events \cup {event_id}
          ELSE IF \/ user_id = "" \/ payload.title = ""
                  \/ next_due_date.raised \/ ~next_due_date.value.present
          THEN \* create_next_task_occurrence returns False before any request
               /\ recur' = [recur EXCEPT ![d] = RecFailed(started)]
               /\ UNCHANGED _processed_events
          ELSE /\ recur' = [recur EXCEPT ![d] =
                            [started EXCEPT
                                !.pc = "posting", !.create_calls = 1,
                                !.task_data = [user_id |-> user_id,
                                               title |-> payload.title,
                                               recurrence |-> payload.recurring_pattern,
                                               due_date |-> next_due_date.value.date]]]
               /\ UNCHANGED _processed_events
    /\ UNCHANGED <<created_tasks, notRec>>

CreateOutcomes == {"201", "400", "422", "404", "5xx",
                   "ConnectError", "TimeoutException", "Exception"}

\* elif response.status_code in (400, 422): return False
is_permanent_rejection(outcome) == outcome \in {"400", "422"}

\* create_next_task_occurrence: the awaited client.post(CREATE_TASK_ENDPOINT) ends
CreatePostReturns(d, outcome) ==
    /\ recur[d].pc = "posting"
    /\ IF outcome = "201"
       THEN /\ created_tasks' = Append(created_tasks, recur[d].task_data)
            /\ _processed_events' = _processed_events \cup {recur[d].event.id}
            /\ recur' = [recur EXCEPT ![d] = RecProcessed([recur[d] EXCEPT !.created = @ + 1])]
       ELSE LET answered == [recur[d] EXCEPT
                                !.rejected = IF outcome \in {"400", "422", "404"}
                                             THEN outcome ELSE ""]
            IN IF is_permanent_rejection(outcome)
               THEN /\ recur' = [recur EXCEPT ![d] = RecFailed(answered)]
                    /\ UNCHANGED <<created_tasks, _processed_events>>
               ELSE IF recur[d].attempt < MAX_RETRIES - 1
               THEN /\ recur' = [recur EXCEPT ![d] =
                           [answered EXCEPT
                               !.pc = "sleeping",
                               !.slept = Append(@, RETRY_DELAYS[recur[d].attempt + 1])]]
                    /\ UNCHANGED <<created_tasks, _processed_events>>
               ELSE /\ recur' = [recur EXCEPT ![d] = RecFailed(answered)]
                    /\ UNCHANGED <<created_tasks, _processed_events>>
    /\ UNCHANGED <<service, notRec>>

\* asyncio.sleep(RETRY_DELAYS[attempt]) ends and the loop sends the next request
CreateRetry(d) ==
    /\ recur[d].pc = "sleeping"
    /\ recur' = [recur EXCEPT ![d].pc = "posting", ![d].attempt = @ + 1,
                          ![d].create_calls = @ + 1, ![d].rejected = ""]
    /\ UNCHANGED <<service, created_tasks, _processed_events, notRec>>

NextRec ==
    \/ \E d \in RecIds, e \in RecEvents : recurring_receive_task_event(d, e)
    \/ \E d \in RecIds, o \in CreateOutcomes : CreatePostReturns(d, o)
    \/ \E d \in RecIds : CreateRetry(d)

NextConsumers == NextRem \/ NextRec

\* ---- calculate_next_due_date called on its own ----
MinYear == 2023
MaxYear == 2024
CalcHours == {0, 10, 23}
CalcDates ==
    {dt \in [y : MinYear..MaxYear, m : 1..12, d : 1..31, hh : CalcHours] :
        dt.d <= DaysInMonth(dt.y, dt.m)}
CalcDueDates == {DueMissing, DueGarbled} \cup {DueIso(dt) : dt \in CalcDates}
CalcPatterns == {"daily", "weekly", "monthly", "yearly", "DAILY", "Weekly", "Monthly",
                 "YEARLY", "none", "hourly", NullPattern}
NoCalc == [pc |-> "idle", current_due_date |-> DueMissing, pattern |-> "none",
           result |-> [raised |-> FALSE, value |-> DueMissing]]
InitCalc == calc = NoCalc

\* calculate_next_due_date(current_due_date, pattern) is called and returns
CalculateNextDueDate(current_due_date, pattern) ==
    /\ calc.pc = "idle"
    /\ calc' = [pc |-> "returned", current_due_date |-> current_due_date,
                pattern |-> pattern,
                result |-> calculate_next_due_date(current_due_date, pattern)]
    /\ UNCHANGED notCalc

NextCalc ==
    /\ calc.pc = "idle"
    /\ \E current_due_date \in CalcDueDates, pattern \in CalcPatterns :
          CalculateNextDueDate(current_due_date, pattern)

(***************************************************************************)
(* routers/tasks.py                                                        *)
(***************************************************************************)
TaskStatus == [PENDING |-> "pending", COMPLETED |-> "completed"]
Now == 50                       \* datetime.now(timezone.utc) while the requests run
ReminderLead == 15              \* timedelta(minutes=15)
DueSoon == 60                   \* a due date whose reminder time has passed
DueLater == 100                 \* a due date whose reminder time is still ahead
Unset == "<unset>"              \* a TaskUpdate field left out (None)

Task(id, user_id, title, status, due_date, recurrence) ==
    [id |-> id, user_id |-> user_id, title |-> title, status |-> status,
     due_date |-> due_date, recurrence |-> recurrence]
NoTaskRow == Task("", "", "", "", NoDate, "")
\* TaskResponse.model_validate(task)
TaskResponse(task) == task

TaskCreateInputs ==
    {[title |-> "a", due_date |-> DueSoon, recurrence |-> "none"]}
TaskUpdateInputs ==
    {[title |-> "b", due_date |-> DueLater]}
RequestIds == 1..NumRequests
\* uuid4() of create_task: request r draws an id no other request draws
NewTaskId(r) == <<"n1", "n2", "n3", "n4">>[r]
\* task ids of the URL path: a task of the user, one that never exists, and
\* one of another user
PathTaskIds == {"t1", "t9", "t3"}

\* a request without a TaskUpdate body
NoTaskUpdate == [title |-> Unset, due_date |-> NoDate]

IdleRequest ==
    [pc |-> "idle", endpoint |-> "", task_id |-> "", task |-> NoTaskRow,
     task_data |-> NoTaskUpdate, dirty |-> {}, changed |-> << >>, k |-> 0,
     status_code |-> 0, body |-> NoTaskRow,
     \* history of this request
     loaded |-> NoTaskRow,      \* the row as the select found it
     committed |-> NoTaskRow,   \* the row as the commit left it
     did_commit |-> FALSE,
     publish_false |-> FALSE,   \* a publish_* call returned False
     event_error |-> FALSE,     \* an exception was raised inside the event block
     emitted |-> << >>]         \* the events handed to publish_event, in order

InitRouter ==
    /\ task_rows = [t \in {"t1", "t2", "t3"} |->
                       CASE t = "t1" -> Task("t1", "u1", "a", TaskStatus.PENDING,
                                             DueLater, "daily")
                         [] t = "t2" -> Task("t2", "u1", "a", TaskStatus.COMPLETED,
                                             NoDate, "none")
                         [] t = "t3" -> Task("t3", "u2", "a", TaskStatus.PENDING,
                                             DueLater, "none")]
    /\ requests = [r \in RequestIds |-> IdleRequest]

FreeRequest(r) ==
    /\ requests[r].pc = "idle"
    /\ \A r2 \in RequestIds : r2 < r => requests[r2].pc # "idle"

\* the response is sent and the request's locals are gone
Respond(req, status_code, body) ==
    [req EXCEPT !.pc = "done", !.status_code = status_code, !.body = body,
                !.task = NoTaskRow, !.task_data = NoTaskUpdate, !.dirty = {},
                !.changed = << >>, !.k = 0]

\* create_task up to the awaited db.commit()
create_task(r, task_data) ==
    /\ FreeRequest(r)
    /\ requests' = [requests EXCEPT ![r] =
          [IdleRequest EXCEPT
              !.pc = "commit", !.endpoint = "create_task", !.task_id = NewTaskId(r),
              !.task = Task(NewTaskId(r), "u1", task_data.title, TaskStatus.PENDING,
                            task_data.due_date, task_data.recurrence)]]
    /\ UNCHANGED <<task_rows, _sequence_counters, notRouter>>

\* the select of toggle / update / delete: the task is loaded, or 404
Select(endpoint, task_id) ==
    LET started == [IdleRequest EXCEPT !.endpoint = endpoint, !.task_id = task_id]
    IN IF task_id \in DOMAIN task_rows /\ task_rows[task_id].user_id = "u1"
       THEN [started EXCEPT !.pc = "commit", !.task = task_rows[task_id],
                            !.loaded = task_rows[task_id]]
       ELSE IF task_id \notin DOMAIN task_rows
       THEN Respond(started, 404, NoTaskRow)
       ELSE Respond(started, 403, NoTaskRow)

\* toggle_task_completion up to the awaited db.commit()
toggle_task_completion(r, task_id) ==
    LET req == Select("toggle_task_completion", task_id)
        toggled ==
          [req EXCEPT !.task.status = IF req.task.status = TaskStatus.PENDING
                                      THEN TaskStatus.COMPLETED ELSE TaskStatus.PENDING,
                      !.dirty = {"status"}]
    IN /\ FreeRequest(r)
       /\ requests' = [requests EXCEPT ![r] =
                          IF req.pc = "commit" THEN toggled ELSE req]
       /\ UNCHANGED <<task_rows, _sequence_counters, notRouter>>

\* update_task up to the awaited db.commit(); `changed` lists the fields the
\* request provided
update_task(r, task_id, task_data) ==
    LET req == Select("update_task", task_id)
        assigned ==
          [req EXCEPT
              !.task_data = task_data,
              !.task.title = IF task_data.title # Unset THEN task_data.title ELSE @,
              !.task.due_date = IF task_data.due_date # NoDate THEN task_data.due_date ELSE @,
              !.dirty = (IF task_data.title # Unset THEN {"title"} ELSE {})
                        \cup (IF task_data.due_date # NoDate THEN {"due_date"} ELSE {}),
              !.changed = (IF task_data.title # Unset THEN <<"title">> ELSE << >>)
                          \o (IF task_data.due_date # NoDate THEN <<"due_date">> ELSE << >>)]
    IN /\ FreeRequest(r)
       /\ requests' = [requests EXCEPT ![r] = IF req.pc = "commit" THEN assigned ELSE req]
       /\ UNCHANGED <<task_rows, _sequence_counters, notRouter>>

\* delete_task up to the awaited db.commit(); the task's fields are captured
delete_task(r, task_id) ==
    /\ FreeRequest(r)
    /\ requests' = [requests EXCEPT ![r] = Select("delete_task", task_id)]
    /\ UNCHANGED <<task_rows, _sequence_counters, notRouter>>

\* mutant: the due date itself is compared with the current time
reminder_is_future_no_lead(due_date) == due_date > Now

\* reminder_time = due_date - timedelta(minutes=15); reminder_time > now
reminder_is_future(due_date) == due_date - ReminderLead > Now

\* mutant: every toggle is reported as a completion
toggle_event_type_always_completed(status) == TaskEventType.COMPLETED

\* TaskEventType.COMPLETED if task.status == COMPLETED else TaskEventType.UPDATED
toggle_event_type(status) ==
    IF status = TaskStatus.COMPLETED THEN TaskEventType.COMPLETED ELSE TaskEventType.UPDATED

\* mutant: the payload is built from the task after the delete has committed,
\* when its attributes are gone
captured_before_delete_reread(task) == NoTaskRow

\* task_title = task.title, ... : copies taken before db.delete(task)
captured_before_delete(task) == task

\* The events of the endpoint's event block, in the order of the code
EventPlan(req) ==
    LET t == IF req.endpoint = "delete_task" THEN captured_before_delete(req.task)
             ELSE req.task
        payload(changed_fields) ==
            TaskEventPayload(t.title, t.status, t.due_date, t.recurrence, changed_fields)
        task_event(type, changed_fields) ==
            [topic |-> TOPIC_TASK_EVENTS, type |-> type, task_id |-> req.task_id,
             data |-> payload(changed_fields)]
        sync(changed_fields) ==
            [topic |-> TOPIC_TASK_UPDATES, type |-> SyncEventType.SYNC,
             task_id |-> req.task_id, data |-> changed_fields]
        reminder(type, reminder_time) ==
            [topic |-> TOPIC_REMINDERS, type |-> type, task_id |-> req.task_id,
             data |-> [due_date |-> t.due_date, reminder_time |-> reminder_time]]
        schedule == IF t.due_date # NoDate /\ reminder_is_future(t.due_date)
                    THEN <<reminder(ReminderEventType.SCHEDULE, t.due_date - ReminderLead)>>
                    ELSE << >>
        cancel == IF t.due_date # NoDate
                  THEN <<reminder(ReminderEventType.CANCEL, t.due_date)>> ELSE << >>
        \* {field: getattr(task_data, field) for field in changed}
        sync_changes == [f \in SeqToSet(req.changed) |-> req.task_data[f]]
    IN CASE req.endpoint = "create_task" ->
               <<task_event(TaskEventType.CREATED, << >>),
                 sync([action |-> "created", title |-> t.title, status |-> t.status])>>
               \o schedule
         [] req.endpoint = "toggle_task_completion" ->
               <<task_event(toggle_event_type(t.status), <<"status">>),
                 sync([status |-> t.status])>>
               \o (IF t.status = TaskStatus.COMPLETED THEN cancel ELSE << >>)
         [] req.endpoint = "update_task" ->
               <<task_event(TaskEventType.UPDATED, req.changed), sync(sync_changes)>>
               \o (IF "due_date" \in SeqToSet(req.changed) THEN schedule ELSE << >>)
         [] req.endpoint = "delete_task" ->
               <<task_event(TaskEventType.DELETED, << >>), sync([action |-> "deleted"])>>
               \o cancel

\* return TaskResponse.model_validate(task) / return None
SuccessResponse(endpoint, task) ==
    CASE endpoint = "create_task" -> [status_code |-> 201, body |-> TaskResponse(task)]
      [] endpoint = "delete_task" -> [status_code |-> 204, body |-> NoTaskRow]
      [] OTHER -> [status_code |-> 200, body |-> TaskResponse(task)]

\* mutant: the event block has no except of its own, the exception reaches
\* the endpoint's outer handlers
event_block_except_missing(endpoint, task) == [status_code |-> 500, body |-> NoTaskRow]

\* except Exception inside the event block: a warning is logged and the
\* endpoint goes on to its return statement
event_block_except(endpoint, task) == SuccessResponse(endpoint, task)

\* The event block from the point where the k-th publish_* call has returned
\* (k = 0: from its start) up to the next awaited POST or to the response.
\* `raises`: building or publishing the next event raises.
ContinueEventBlock(req, raises) ==
    LET plan == EventPlan(req)
        ok == SuccessResponse(req.endpoint, req.task)
        failed == event_block_except(req.endpoint, req.task)
    IN IF req.k = Len(plan)
       THEN Respond(req, ok.status_code, ok.body)
       ELSE IF raises
       THEN Respond([req EXCEPT !.event_error = TRUE], failed.status_code, failed.body)
       ELSE [req EXCEPT !.pc = "publishing", !.k = req.k + 1,
                        !.emitted = Append(@, plan[req.k + 1])]

\* _get_next_sequence as called by the publish_* call that starts in `after`
AllocateFor(before, after) ==
    IF after.pc = "publishing" /\ EventPlan(after)[after.k].topic # TOPIC_REMINDERS
    THEN _get_next_sequence(_sequence_counters,
                            sequence_key(EventPlan(after)[after.k].topic,
                                         after.task_id)).counters
    ELSE _sequence_counters

CommitOutcomes == {"ok", "OperationalError"}

\* mutant: the event block is run although the commit failed
commit_failed_publishes(req) == [req EXCEPT !.pc = "publishing", !.k = 1,
                                           !.emitted = <<EventPlan(req)[1]>>]

\* except (DBAPIError, OperationalError): 503, nothing after the commit runs
commit_failed(req) == Respond(req, 503, NoTaskRow)

\* the POST of a publish call made by an endpoint: accepted (publish_event
\* returns True) or refused (it returns False)
EventPostOutcomes == {"2xx", "5xx"}

\* The awaited db.commit() ends; on success db.refresh, then the event block
\* up to its first awaited POST
DbCommitReturns(r, outcome, raises) ==
    /\ requests[r].pc = "commit"
    /\ raises => outcome = "ok"
    /\ LET req == requests[r]
           t == req.task_id
           stale == req.endpoint # "create_task" /\ t \notin DOMAIN task_rows
           \* UPDATE of the columns the request assigned; the row's other
           \* columns are what the table holds
           written == IF req.endpoint = "create_task" THEN req.task
                      ELSE [f \in DOMAIN req.task |->
                               IF f \in req.dirty THEN req.task[f] ELSE task_rows[t][f]]
       IN IF outcome = "OperationalError"
          THEN /\ requests' = [requests EXCEPT ![r] = commit_failed(req)]
               /\ UNCHANGED <<task_rows, _sequence_counters>>
          ELSE IF stale /\ req.endpoint # "delete_task"
          THEN \* the UPDATE matches no row: StaleDataError, unhandled
               /\ requests' = [requests EXCEPT ![r] = Respond(req, 500, NoTaskRow)]
               /\ UNCHANGED <<task_rows, _sequence_counters>>
          ELSE LET refreshed == IF req.endpoint = "delete_task" THEN req.task ELSE written
                   after == ContinueEventBlock(
                               [req EXCEPT !.task = refreshed, !.did_commit = TRUE,
                                           !.committed = refreshed], raises)
               IN /\ task_rows' = IF req.endpoint = "delete_task"
                                  THEN [x \in DOMAIN task_rows \ {t} |-> task_rows[x]]
                                  ELSE Put(task_rows, t, written)
                  /\ requests' = [requests EXCEPT ![r] = after]
                  /\ _sequence_counters' = AllocateFor(req, after)
    /\ UNCHANGED notRouter

\* json=event.model_dump(): a sync event that carries the due_date of the
\* request body holds a datetime, which the JSON encoder refuses
JsonSerializable(event) ==
    ~(event.topic = TOPIC_TASK_UPDATES /\ "due_date" \in DOMAIN event.data)

\* The POST awaited inside publish_event ends, the publish_* call returns to
\* the endpoint, and the event block goes on
EventPublishReturns(r, outcome, raises) ==
    /\ requests[r].pc = "publishing"
    /\ raises => requests[r].k < Len(EventPlan(requests[r]))
    /\ LET req == requests[r]
           result == publish_event(IF JsonSerializable(req.emitted[req.k])
                                   THEN outcome ELSE "TypeError")
           after == IF result.raised
                    THEN ContinueEventBlock(req, TRUE)
                    ELSE ContinueEventBlock(
                            [req EXCEPT !.publish_false = @ \/ ~result.value], raises)
       IN /\ requests' = [requests EXCEPT ![r] = after]
          /\ _sequence_counters' = AllocateFor(req, after)
    /\ UNCHANGED <<task_rows, notRouter>>

NextRouter ==
    \/ \E r \in RequestIds, task_data \in TaskCreateInputs : create_task(r, task_data)
    \/ \E r \in RequestIds, t \in PathTaskIds : toggle_task_completion(r, t)
    \/ \E r \in RequestIds, t \in PathTaskIds, task_data \in TaskUpdateInputs :
          update_task(r, t, task_data)
    \/ \E r \in RequestIds, t \in PathTaskIds : delete_task(r, t)
    \/ \E r \in RequestIds, o \in CommitOutcomes, raises \in BOOLEAN :
          DbCommitReturns(r, o, raises)
    \/ \E r \in RequestIds, o \in EventPostOutcomes, raises \in BOOLEAN :
          EventPublishReturns(r, o, raises)

\* The endpoints with the request bodies of the emission rules, one request
\* at a time
EmissionCreateInputs ==
    {[title |-> "a", due_date |-> NoDate, recurrence |-> "none"],
     [title |-> "a", due_date |-> DueSoon, recurrence |-> "none"],
     [title |-> "a", due_date |-> DueLater, recurrence |-> "daily"]}
EmissionUpdateInputs ==
    {[title |-> "b", due_date |-> NoDate],
     [title |-> "a", due_date |-> NoDate],
     [title |-> Unset, due_date |-> DueSoon],
     [title |-> Unset, due_date |-> DueLater]}
EmissionPathTaskIds == {"t1", "t2"}
NoRequestInFlight == \A r \in RequestIds : requests[r].pc \in {"idle", "closed"}

\* The response has gone out and the connection is closed
ClosedRequest == [IdleRequest EXCEPT !.pc = "closed"]
ResponseSent(r) ==
    /\ requests[r].pc = "done"
    /\ requests' = [requests EXCEPT ![r] = ClosedRequest]
    /\ UNCHANGED <<task_rows, _sequence_counters, notRouter>>

NextEmission ==
    \/ \E r \in RequestIds, task_data \in EmissionCreateInputs :
          NoRequestInFlight /\ create_task(r, task_data)
    \/ \E r \in RequestIds, t \in EmissionPathTaskIds :
          NoRequestInFlight /\ toggle_task_completion(r, t)
    \/ \E r \in RequestIds, t \in EmissionPathTaskIds, task_data \in EmissionUpdateInputs :
          NoRequestInFlight /\ update_task(r, t, task_data)
    \/ \E r \in RequestIds, t \in EmissionPathTaskIds :
          NoRequestInFlight /\ delete_task(r, t)
    \/ \E r \in RequestIds, raises \in BOOLEAN : DbCommitReturns(r, "ok", raises)
    \/ \E r \in RequestIds : ResponseSent(r)
    \/ \E r \in RequestIds, o \in EventPostOutcomes, raises \in BOOLEAN :
          EventPublishReturns(r, o, raises)

(***************************************************************************)
(* services/sync: ConnectionManager, verify_ws_token, websocket_endpoint   *)
(***************************************************************************)
NumSockets == 2     \* websockets that clients open in one behaviour
WebSockets == 1..NumSockets
SyncUsers == {"u1", "u2"}
NotLoaded == "<not loaded>"
NoSecret == ""                  \* os.getenv("BETTER_AUTH_SECRET") is None
ValueError == "<ValueError>"
WsToken(signature, exp, sub) == [signature |-> signature, exp |-> exp, sub |-> sub]
NoToken == WsToken("", "", "")
\* the tokens clients present: signed with the secret or not, expiring in the
\* future, expired or without an exp claim, with or without a subject
WsTokens ==
    {WsToken("good", "future", "u1"), WsToken("good", "future", "u2"),
     WsToken("good", "none", "u1"), WsToken("good", "past", "u1"),
     WsToken("bad", "future", "u1"), WsToken("good", "future", "")}

\* mutant: the exp claim is not looked at
verify_ws_token_ignoring_exp(secret, token) ==
    IF secret = NoSecret THEN ValueError
    ELSE IF token.signature # "good" THEN ValueError
    ELSE IF token.sub = "" THEN ValueError
    ELSE token.sub

\* verify_ws_token: the token's subject, or ValueError; jwt.decode raises
\* JWTError for a wrong signature and for an exp claim in the past
verify_ws_token(secret, token) ==
    IF secret = NoSecret THEN ValueError
    ELSE IF token.signature # "good" \/ token.exp = "past" THEN ValueError
    ELSE IF token.sub = "" THEN ValueError
    ELSE token.sub

\* ConnectionManager.connect after websocket.accept() returned
connect(active, user_id, websocket) ==
    Put(active, user_id,
        (IF user_id \in DOMAIN active THEN active[user_id] ELSE {}) \cup {websocket})

\* mutant: the user's key stays when its last connection is removed
disconnect_keeping_empty_set(active, user_id, websocket) ==
    IF user_id \in DOMAIN active
    THEN [active EXCEPT ![user_id] = @ \ {websocket}]
    ELSE active

\* ConnectionManager.disconnect
disconnect(active, user_id, websocket) ==
    IF user_id \in DOMAIN active
    THEN LET remaining == active[user_id] \ {websocket}
         IN IF remaining = {}
            THEN [u \in DOMAIN active \ {user_id} |-> active[u]]
            ELSE [active EXCEPT ![user_id] = remaining]
    ELSE active

RECURSIVE disconnect_each(_, _, _)
\* for websocket in disconnected: self.disconnect(user_id, websocket)
disconnect_each(active, user_id, disconnected) ==
    IF disconnected = {} THEN active
    ELSE LET websocket == CHOOSE w \in disconnected : TRUE
         IN disconnect_each(disconnect(active, user_id, websocket), user_id,
                            disconnected \ {websocket})

\* mutant: the failed websockets are taken out of the user's set directly
cleanup_discarding(active, user_id, disconnected) ==
    IF user_id \in DOMAIN active
    THEN [active EXCEPT ![user_id] = @ \ disconnected]
    ELSE active

\* broadcast_to_user: "Clean up disconnected sockets"
cleanup(active, user_id, disconnected) ==
    disconnect_each(active, user_id, disconnected)

RECURSIVE SumOfSizes(_, _)
SumOfSizes(active, keys) ==
    IF keys = {} THEN 0
    ELSE LET k == CHOOSE u \in keys : TRUE
         IN Cardinality(active[k]) + SumOfSizes(active, keys \ {k})
\* ConnectionManager.get_connection_count
get_connection_count(active) == SumOfSizes(active, DOMAIN active)

IdleEndpoint ==
    [pc |-> "new", token |-> NoToken, user_id |-> "", close_code |-> 0,
     registered |-> FALSE]      \* manager.connect put it into the registry (history)
NoCall == [op |-> "", user_id |-> "", websocket |-> 0, changed |-> FALSE]
IdleBroadcast ==
    [pc |-> "idle", user_id |-> "", connections |-> {}, todo |-> {},
     disconnected |-> {},
     \* history of this call
     at_start |-> {},           \* the websockets connected for the user when it began
     sends |-> [w \in WebSockets |-> 0],    \* send_json calls per websocket
     succeeded |-> {},          \* the websockets whose send_json returned
     raised |-> FALSE]
\* an event on the task-updates topic: the CloudEvent id and data.user_id
SyncEvent(id, user_id) == [id |-> id, data |-> [user_id |-> user_id]]
NoSyncEvent == SyncEvent("<none>", "")
InitSync ==
    /\ secret_key = NotLoaded
    /\ active_connections = << >>
    /\ ep = [w \in WebSockets |-> IdleEndpoint]
    /\ bc = IdleBroadcast
    /\ live = {}
    /\ last_call = NoCall
    /\ bc2 = IdleBroadcast
    /\ sync_ev = NoSyncEvent
    /\ sync_log = << >>

\* the service starts: load_dotenv() fixes the environment the handlers read
load_dotenv(secret) ==
    /\ secret_key = NotLoaded
    /\ secret_key' = secret
    /\ UNCHANGED <<active_connections, ep, bc, live, last_call, syncEventVars, notSync>>

\* a client opens /ws/tasks?token=...: websocket_endpoint up to its first await
websocket_endpoint(websocket, token) ==
    /\ secret_key # NotLoaded
    /\ ep[websocket].pc = "new"
    /\ LET user_id == verify_ws_token(secret_key, token)
       IN ep' = [ep EXCEPT ![websocket] =
                    IF user_id = ValueError
                    THEN [@ EXCEPT !.pc = "closed", !.token = token, !.close_code = 1008]
                    ELSE [@ EXCEPT !.pc = "accepting", !.token = token,
                                   !.user_id = user_id]]
    /\ UNCHANGED <<secret_key, active_connections, bc, live, last_call, syncEventVars, notSync>>

\* manager.connect: the awaited websocket.accept() returns, or raises because
\* the client is gone (the exception leaves websocket_endpoint)
AcceptReturns(websocket, accepted) ==
    /\ ep[websocket].pc = "accepting"
    /\ IF accepted
       THEN /\ active_connections' =
                  connect(active_connections, ep[websocket].user_id, websocket)
            /\ live' = live \cup {<<ep[websocket].user_id, websocket>>}
            /\ ep' = [ep EXCEPT ![websocket].pc = "open", ![websocket].registered = TRUE]
       ELSE /\ ep' = [ep EXCEPT ![websocket].pc = "closed"]
            /\ UNCHANGED <<active_connections, live>>
    /\ UNCHANGED <<secret_key, bc, last_call, syncEventVars, notSync>>

\* mutant: the handler returns without a finally clause
finally_disconnect_missing(active, user_id, websocket) == active

\* finally: if user_id: manager.disconnect(user_id, websocket)
finally_disconnect(active, user_id, websocket) ==
    IF user_id # "" THEN disconnect(active, user_id, websocket) ELSE active

\* the receive loop ends (the client disconnected, or an error): finally
\* manager.disconnect(user_id, websocket)
ReceiveRaises(websocket) ==
    /\ ep[websocket].pc = "open"
    /\ active_connections' =
          finally_disconnect(active_connections, ep[websocket].user_id, websocket)
    /\ live' = live \ {<<ep[websocket].user_id, websocket>>}
    /\ ep' = [ep EXCEPT ![websocket].pc = "closed"]
    /\ UNCHANGED <<secret_key, bc, last_call, syncEventVars, notSync>>

\* mutant: the message goes to the connections of every user
connections_of_all_users(active, user_id) ==
    UNION {active[u] : u \in DOMAIN active}

\* connections = list(self.active_connections[user_id])
connections_of(active, user_id) == active[user_id]

\* broadcast_to_user up to its first await: the call as it stands then
BroadcastStarted(user_id) ==
    LET b == [IdleBroadcast EXCEPT
                 !.user_id = user_id,
                 !.at_start = {w \in WebSockets : <<user_id, w>> \in live}]
    IN IF user_id \notin DOMAIN active_connections
       THEN [b EXCEPT !.pc = "done"]
       ELSE LET connections == connections_of(active_connections, user_id)
            IN [b EXCEPT !.pc = "sending", !.connections = connections,
                         !.todo = connections]

\* broadcast_to_user is called
broadcast_to_user(user_id) ==
    /\ secret_key # NotLoaded
    /\ bc.pc \in {"idle", "done"}
    /\ bc' = BroadcastStarted(user_id)
    /\ UNCHANGED <<secret_key, active_connections, ep, live, last_call, syncEventVars, notSync>>

\* mutant: a failed send is not remembered
disconnected_after_forgetting(disconnected, websocket, ok) == disconnected

\* except ...: disconnected.append(websocket)
disconnected_after(disconnected, websocket, ok) ==
    IF ok THEN disconnected ELSE disconnected \cup {websocket}

\* the awaited websocket.send_json(message) returns or raises (it raises when
\* the websocket is closed); after the last one the failed ones are
\* disconnected
SendJsonReturned(b, websocket, ok) ==
    LET todo == b.todo \ {websocket}
        disconnected == disconnected_after(b.disconnected, websocket, ok)
        sent == [b EXCEPT !.todo = todo, !.disconnected = disconnected,
                          !.sends[websocket] = @ + 1,
                          !.succeeded = IF ok THEN @ \cup {websocket} ELSE @]
    IN IF todo # {}
       THEN [call |-> sent, active |-> active_connections, live |-> live]
       ELSE [call |-> [sent EXCEPT !.pc = "done"],
             active |-> cleanup(active_connections, b.user_id, disconnected),
             live |-> live \ {<<b.user_id, w>> : w \in disconnected}]

\* a send_json of the broadcast returns or raises
SendJsonReturns(websocket, ok) ==
    /\ bc.pc = "sending"
    /\ websocket \in bc.todo
    /\ ep[websocket].pc = "closed" => ~ok
    /\ LET after == SendJsonReturned(bc, websocket, ok)
       IN /\ bc' = after.call
          /\ active_connections' = after.active
          /\ live' = after.live
    /\ UNCHANGED <<secret_key, ep, last_call, syncEventVars, notSync>>

\* ---- a second broadcast_to_user coroutine ----
OtherBroadcastToUser(user_id) ==
    /\ secret_key # NotLoaded
    /\ bc2.pc \in {"idle", "done"}
    /\ bc2' = BroadcastStarted(user_id)
    /\ UNCHANGED <<secret_key, active_connections, ep, bc, live, last_call,
                   sync_ev, sync_log, notSync>>

OtherSendJsonReturns(websocket, ok) ==
    /\ bc2.pc = "sending"
    /\ websocket \in bc2.todo
    /\ ep[websocket].pc = "closed" => ~ok
    /\ LET after == SendJsonReturned(bc2, websocket, ok)
       IN /\ bc2' = after.call
          /\ active_connections' = after.active
          /\ live' = after.live
    /\ UNCHANGED <<secret_key, ep, bc, last_call, sync_ev, sync_log, notSync>>

\* ---- POST /events/task-updates: handle_event, handle_task_update ----
MaxSyncDeliveries == 2      \* events the sync service handles in one behaviour
\* the events the transport delivers: for each of two users, and one without
\* a user_id
SyncEvents ==
    {SyncEvent("s1", "u1"), SyncEvent("s2", "u2"), SyncEvent("s3", "")}
\* handle_event returns {"status": "success"}: the entry of the log
Handled(event, call) ==
    [event |-> event, status_code |-> 200, at_start |-> call.at_start,
     sends |-> {w \in WebSockets : call.sends[w] > 0}, sent_to |-> call.succeeded]

\* mutant: every event is broadcast to one fixed user
event_user_id_fixed(event) == "u1"

\* data = event.get("data", event); user_id = event.get("user_id")
event_user_id(event) == event.data.user_id

\* POST /events/task-updates up to the first await of the broadcast
handle_event(event) ==
    /\ secret_key # NotLoaded
    /\ sync_ev = NoSyncEvent
    /\ Len(sync_log) < MaxSyncDeliveries
    /\ bc.pc \in {"idle", "done"}
    /\ LET user_id == event_user_id(event)
           call == BroadcastStarted(user_id)
       IN IF user_id = ""
          THEN \* logged, return
               /\ sync_log' = Append(sync_log, Handled(event, IdleBroadcast))
               /\ UNCHANGED <<bc, sync_ev>>
          ELSE IF call.pc = "done"
          THEN \* no connections: broadcast_to_user returns at once
               /\ bc' = call
               /\ sync_log' = Append(sync_log, Handled(event, call))
               /\ UNCHANGED sync_ev
          ELSE /\ bc' = call
               /\ sync_ev' = event
               /\ UNCHANGED sync_log
    /\ UNCHANGED <<secret_key, active_connections, ep, live, last_call, bc2, notSync>>

\* a send_json of the event's broadcast returns or raises; after the last one
\* handle_event returns
EventSendJsonReturns(websocket, ok) ==
    /\ sync_ev # NoSyncEvent
    /\ bc.pc = "sending"
    /\ websocket \in bc.todo
    /\ ep[websocket].pc = "closed" => ~ok
    /\ LET after == SendJsonReturned(bc, websocket, ok)
       IN /\ bc' = after.call
          /\ active_connections' = after.active
          /\ live' = after.live
          /\ IF after.call.pc = "done"
             THEN /\ sync_log' = Append(sync_log, Handled(sync_ev, after.call))
                  /\ sync_ev' = NoSyncEvent
             ELSE UNCHANGED <<sync_ev, sync_log>>
    /\ UNCHANGED <<secret_key, ep, last_call, bc2, notSync>>

\* the tokens of clients that are let in
GoodTokens == {WsToken("good", "future", "u1"), WsToken("good", "future", "u2")}

NextSyncEvents ==
    \/ load_dotenv("s")
    \/ \E w \in WebSockets, token \in GoodTokens : websocket_endpoint(w, token)
    \/ \E w \in WebSockets : AcceptReturns(w, TRUE)
    \/ \E w \in WebSockets : ReceiveRaises(w)
    \/ \E event \in SyncEvents : handle_event(event)
    \/ \E w \in WebSockets, ok \in BOOLEAN : EventSendJsonReturns(w, ok)

\* clients of one user connecting and leaving while two broadcasts run
NextConcurrent ==
    \/ load_dotenv("s")
    \/ \E w \in WebSockets : websocket_endpoint(w, WsToken("good", "future", "u1"))
    \/ \E w \in WebSockets : AcceptReturns(w, TRUE)
    \/ \E w \in WebSockets : ReceiveRaises(w)
    \/ broadcast_to_user("u1")
    \/ \E w \in WebSockets, ok \in BOOLEAN : SendJsonReturns(w, ok)
    \/ OtherBroadcastToUser("u1")
    \/ \E w \in WebSockets, ok \in BOOLEAN : OtherSendJsonReturns(w, ok)

NextSync ==
    \/ \E secret \in {NoSecret, "s"} : load_dotenv(secret)
    \/ \E w \in WebSockets, token \in WsTokens : websocket_endpoint(w, token)
    \/ \E w \in WebSockets, accepted \in BOOLEAN : AcceptReturns(w, accepted)
    \/ \E w \in WebSockets : ReceiveRaises(w)
    \/ \E user_id \in SyncUsers : broadcast_to_user(user_id)
    \/ \E w \in WebSockets, ok \in BOOLEAN : SendJsonReturns(w, ok)

\* ---- the manager called directly ----
\* manager.connect(user_id, websocket)
ManagerConnect(user_id, websocket, accepted) ==
    /\ active_connections' =
          IF accepted THEN connect(active_connections, user_id, websocket)
          ELSE active_connections
    /\ live' = IF accepted THEN live \cup {<<user_id, websocket>>} ELSE live
    /\ last_call' = [op |-> "connect", user_id |-> user_id, websocket |-> websocket,
                     changed |-> accepted /\ <<user_id, websocket>> \notin live]
    /\ UNCHANGED <<secret_key, ep, bc, syncEventVars, notSync>>

\* manager.disconnect(user_id, websocket)
ManagerDisconnect(user_id, websocket) ==
    /\ active_connections' = disconnect(active_connections, user_id, websocket)
    /\ live' = live \ {<<user_id, websocket>>}
    /\ last_call' = [op |-> "disconnect", user_id |-> user_id, websocket |-> websocket,
                     changed |-> <<user_id, websocket>> \in live]
    /\ UNCHANGED <<secret_key, ep, bc, syncEventVars, notSync>>

NextRegistry ==
    \/ \E user_id \in SyncUsers, w \in WebSockets, accepted \in BOOLEAN :
          ManagerConnect(user_id, w, accepted)
    \/ \E user_id \in SyncUsers, w \in WebSockets : ManagerDisconnect(user_id, w)

(***************************************************************************)
(* Specifications                                                          *)
(***************************************************************************)
Init ==
    /\ InitPub /\ InitAudit /\ InitRem /\ InitFire /\ InitNotifier
    /\ InitRec /\ InitCalc /\ InitRouter /\ InitSync
    /\ service = NoService
Next ==
    \/ NextPub \/ NextAudit \/ NextConsumers \/ NextFire \/ NextNotifier
    \/ NextCalc \/ NextRouter \/ NextEmission \/ NextSync \/ NextRegistry
    \/ NextSyncEvents \/ NextConcurrent
Spec == Init /\ [][Next]_vars

\* The publisher alone
SpecPub == Init /\ [][NextPub]_vars
\* The audit service alone
SpecAudit == Init /\ [][NextAudit]_vars
\* The notification service and the recurring-task service: two processes that
\* share no state, a behaviour follows one of them
SpecConsumers == Init /\ [][NextConsumers]_vars
\* calculate_next_due_date on its own
SpecCalc == Init /\ [][NextCalc]_vars
\* The callback for a due reminder
SpecFire == Init /\ [][NextFire]_vars
\* One call of a notifier
SpecNotifier == Init /\ [][NextNotifier]_vars
\* The sync service: clients connecting and leaving, task updates broadcast
SpecSync == Init /\ [][NextSync]_vars
\* The connection manager under arbitrary connect and disconnect calls
SpecRegistry == Init /\ [][NextRegistry]_vars
\* The sync service handling the events of the task-updates topic
SpecSyncEvents == Init /\ [][NextSyncEvents]_vars
\* Two broadcasts to one user running beside each other
SpecConcurrent == Init /\ [][NextConcurrent]_vars
\* The task mutation endpoints of the backend
SpecRouter == Init /\ [][NextRouter]_vars
\* The same endpoints handling one request after the other
SpecEmission == Init /\ [][NextEmission]_vars

(***************************************************************************)
(* Claims about events/schemas.py and events/publisher.py (SpecPub)        *)
(***************************************************************************)
StrictlyIncreasing(s) == \A i \in 1..Len(s) : \A j \in 1..Len(s) : i < j => s[i] < s[j]
Posting(c) == coros[c].pc = "posting"

\* C5: for every task id, the k-th call of _get_next_sequence(task_id) returns
\* exactly k (1 first, then +1 per call), and the counter of a task id depends
\* only on the number of calls made for that task id, never on calls for others.
C5_KthCallReturnsK ==
    \A key \in DOMAIN returned :
        /\ \A k \in 1..Len(returned[key]) : returned[key][k] = k
        /\ Get(_sequence_counters, key, 0) = Len(returned[key])

\* C5 witness: two calls for t1 and one for t2 have returned
C5_Witness ==
    /\ Get(returned, "t1", << >>) = <<1, 2>>
    /\ Get(returned, "t2", << >>) = <<1>>

\* C6: whatever the interleaving of publish_task_event and publish_sync_event
\* coroutines, after n allocations for a task id the values handed out for it
\* are exactly {1..n}: none lost, none handed out twice.
C6_NoLostOrRepeatedAllocation ==
    \A key \in DOMAIN returned :
        /\ SeqToSet(returned[key]) = 1..Len(returned[key])
        /\ Cardinality(SeqToSet(returned[key])) = Len(returned[key])

\* C6 witness: a task event and a sync event of the same task are in flight
\* together (both coroutines suspended at the POST), each with its own number
C6_Witness ==
    \E c1 \in CoroIds, c2 \in CoroIds :
        /\ Posting(c1) /\ Posting(c2)
        /\ coros[c1].event.type \in TaskEventTypes
        /\ coros[c2].event.type = SyncEventType.SYNC
        /\ coros[c1].event.data.task_id = coros[c2].event.data.task_id
        /\ Len(Get(returned, coros[c1].event.data.task_id, << >>)) >= 2

C8_IdempotencyKeyIsEventId ==
    \A c \in CoroIds :
        (Posting(c) /\ coros[c].event.type \in TaskEventTypes)
            => coros[c].event.data.idempotency_key = coros[c].event.id

\* C8 witness: task events of two different types are built and in flight
C8_Witness ==
    \E c1 \in CoroIds, c2 \in CoroIds :
        /\ Posting(c1) /\ Posting(c2)
        /\ coros[c1].event.type = TaskEventType.CREATED
        /\ coros[c2].event.type = TaskEventType.DELETED
        /\ coros[c1].event.id # coros[c2].event.id

\* C9: publish_event never raises to its caller; after at most one POST it
\* returns True exactly when the transport answered with a success status and
\* False for an unreachable transport, an error status or any other exception.
C9_PublishEventNeverRaises ==
    \A c \in CoroIds :
        /\ coros[c].pc # "raised"
        /\ ~coros[c].raised
        /\ coros[c].pc = "returned" =>
              /\ coros[c].value = (coros[c].outcome = "2xx")
              /\ coros[c].posts <= 1

\* C9 witness: one publish returned False after a timeout while another
\* returned True
C9_Witness ==
    \E c1 \in CoroIds, c2 \in CoroIds :
        /\ coros[c1].pc = "returned" /\ coros[c1].outcome = "TimeoutException"
        /\ ~coros[c1].value
        /\ coros[c2].pc = "returned" /\ coros[c2].value

(***************************************************************************)
(* Claims about the audit service (SpecAudit)                              *)
(***************************************************************************)
WellFormed(event) == request_model_accepts(event) /\ handle_task_event_validates(event)
Ended(d) == deliveries[d].pc = "done"
\* d1 and d2 are two deliveries of one well-formed event that both ran to
\* their end without a storage error (OperationalError or other exception)
SameEventBothEnded(d1, d2) ==
    /\ d1 # d2
    /\ Ended(d1) /\ Ended(d2)
    /\ deliveries[d1].event = deliveries[d2].event
    /\ WellFormed(deliveries[d1].event)
    /\ ~deliveries[d1].storage_error /\ ~deliveries[d2].storage_error

\* C1: handling the same valid event twice in sequence leaves exactly one
\* audit_logs row for its event_id; the second call finds the existing row,
\* writes nothing and returns success.
C1_SecondCallFindsTheRow ==
    \A d1 \in DeliveryIds, d2 \in DeliveryIds :
        (SameEventBothEnded(d1, d2) /\ d1 \in deliveries[d2].after)
            => /\ Cardinality(RowsFor(deliveries[d2].event.id)) = 1
               /\ deliveries[d2].found_existing
               /\ ~deliveries[d2].wrote
               /\ deliveries[d2].success

\* What does hold of sequential redelivery: never more than one row per
\* event_id, and a call that begins when the row is there writes nothing and
\* succeeds.
AuditAtMostOneRowPerEvent ==
    /\ \A i \in 1..Len(audit_logs) : Cardinality(RowsFor(audit_logs[i].event_id)) = 1
    /\ \A d1 \in DeliveryIds, d2 \in DeliveryIds :
          (/\ SameEventBothEnded(d1, d2) /\ d1 \in deliveries[d2].after
           /\ (deliveries[d1].wrote \/ deliveries[d1].found_existing))
              => /\ deliveries[d2].found_existing /\ ~deliveries[d2].wrote
                 /\ deliveries[d2].success

\* C4: when two deliveries of one event id both pass the 'row does not exist'
\* check, exactly one insert commits, the other meets the duplicate conflict
\* and is treated as success, and the table ends with exactly one row for the
\* event_id, both deliveries reporting success.
C4_RacingInsertsLeaveOneRow ==
    \A d1 \in DeliveryIds, d2 \in DeliveryIds :
        (/\ SameEventBothEnded(d1, d2)
         /\ deliveries[d1].passed_check /\ deliveries[d2].passed_check)
            => /\ Cardinality(RowsFor(deliveries[d1].event.id)) = 1
               /\ deliveries[d1].wrote # deliveries[d2].wrote
               /\ deliveries[d1].success /\ deliveries[d2].success

\* The race itself is reachable with the row's references in place: one
\* delivery wrote, the other met the conflict, one row
AuditRaceOneRow ==
    \E d1 \in DeliveryIds, d2 \in DeliveryIds :
        /\ SameEventBothEnded(d1, d2)
        /\ deliveries[d1].wrote /\ deliveries[d2].conflict
        /\ deliveries[d2].passed_check /\ deliveries[d2].success
        /\ Cardinality(RowsFor(deliveries[d1].event.id)) = 1

(***************************************************************************)
(* Claims on the in-memory ledgers (SpecConsumers)                         *)
(***************************************************************************)
\* C2: for the reminder consumer and for the recurring-task consumer, a
\* delivery of an event id that starts after an earlier delivery of that id
\* ended in success sends no request to the jobs API / no task-create request,
\* and is itself answered as a success.
C2_RedeliveryAfterSuccessIsNoOp ==
    /\ \A d \in RemIds :
          rem[d].after_success =>
             /\ rem[d].pc = "done" /\ rem[d].job_calls = 0
             /\ rem[d].status_code = 200 /\ rem[d].status = "success" /\ ~rem[d].raised
    /\ \A d \in RecIds :
          recur[d].after_success =>
             /\ recur[d].pc = "done" /\ recur[d].create_calls = 0
             /\ recur[d].status_code = 200 /\ recur[d].status = "processed"

\* a schedule event was carried out by one delivery and then handled again
C2_Witness ==
    \E d1, d2 \in RemIds :
        /\ rem[d1].pc = "done" /\ rem[d1].job_done = 1 /\ rem[d1].status = "success"
        /\ rem[d1].event.type = ReminderEventType.SCHEDULE
        /\ rem[d2].event = rem[d1].event /\ rem[d2].after_success /\ rem[d2].pc = "done"

\* a recurrence was created by one delivery and the event then handled again
RecurringRedeliveredAfterCreate ==
    \E d1, d2 \in RecIds :
        /\ recur[d1].pc = "done" /\ recur[d1].created = 1 /\ Len(created_tasks) = 1
        /\ recur[d2].event = recur[d1].event /\ recur[d2].after_success
        /\ recur[d2].pc = "done"

\* C3: of the deliveries of one event id, at most one has its side effect
\* carried out (one job scheduled or cancelled, one task created), also when
\* the deliveries overlap.
C3_AtMostOneDeliveryActs ==
    /\ \A d1, d2 \in RemIds :
          (d1 # d2 /\ rem[d1].event.id # "" /\ rem[d1].event.id = rem[d2].event.id)
             => ~(rem[d1].job_done > 0 /\ rem[d2].job_done > 0)
    /\ \A d1, d2 \in RecIds :
          (d1 # d2 /\ recur[d1].event.id # "" /\ recur[d1].event.id = recur[d2].event.id)
             => ~(recur[d1].created > 0 /\ recur[d2].created > 0)

\* the same statement for each consumer on its own
ReminderAtMostOneDeliveryActs ==
    \A d1, d2 \in RemIds :
        (d1 # d2 /\ rem[d1].event.id # "" /\ rem[d1].event.id = rem[d2].event.id)
           => ~(rem[d1].job_done > 0 /\ rem[d2].job_done > 0)
RecurringAtMostOneDeliveryActs ==
    \A d1, d2 \in RecIds :
        (d1 # d2 /\ recur[d1].event.id # "" /\ recur[d1].event.id = recur[d2].event.id)
           => ~(recur[d1].created > 0 /\ recur[d2].created > 0)

(***************************************************************************)
(* Claims on the task router (SpecRouter)                                  *)
(***************************************************************************)
InEventBlock(r) == requests[r].pc = "publishing"

\* C10: once an endpoint has committed, its response is the success response
\* built from the committed task, whatever each publish call returned and
\* whether or not the event block raised; and no step of the event block
\* writes the tasks table.
C10_MutationIndependentOfPublish ==
    /\ [](\A r \in RequestIds :
            (requests[r].pc = "done" /\ requests[r].did_commit) =>
               LET ok == SuccessResponse(requests[r].endpoint, requests[r].committed)
               IN /\ requests[r].status_code = ok.status_code
                  /\ requests[r].body = ok.body)
    /\ [][\A r \in RequestIds :
            (InEventBlock(r) /\ requests'[r] # requests[r]) => task_rows' = task_rows]_vars

\* a request whose event block had a publish return False and then raised
C10_Witness ==
    \E r \in RequestIds :
        /\ requests[r].pc = "done" /\ requests[r].did_commit
        /\ requests[r].publish_false /\ requests[r].event_error
        /\ requests[r].status_code = 200

\* C11: a request has handed an event to the publisher only if its commit
\* has succeeded; a request answered 403, 404, 500 or 503 has published none.
C11_EventsOnlyAfterCommit ==
    \A r \in RequestIds :
        /\ requests[r].emitted # << >> => requests[r].did_commit
        /\ requests[r].pc \in {"idle", "commit"} => requests[r].emitted = << >>
        /\ (requests[r].pc = "done" /\ requests[r].status_code \in {403, 404, 500, 503})
              => (requests[r].emitted = << >> /\ ~requests[r].did_commit)

\* one request's commit failed and it published nothing, another committed
\* and published its events
C11_Witness ==
    \E r1, r2 \in RequestIds :
        /\ requests[r1].pc = "done" /\ requests[r1].status_code = 503
        /\ requests[r1].emitted = << >>
        /\ requests[r2].pc = "done" /\ requests[r2].did_commit
        /\ Len(requests[r2].emitted) >= 2

\* C12: while a publish call of a request is in flight, the request's
\* response has already been produced (the response does not wait for it).
C12_ResponseDoesNotWaitForPublish ==
    \A r \in RequestIds : InEventBlock(r) => requests[r].status_code # 0

(***************************************************************************)
(* Claims on the emission rules (SpecEmission)                             *)
(***************************************************************************)
\* the request committed and its event block ran to its end
RanEventBlock(r, endpoint) ==
    /\ requests[r].pc = "done" /\ requests[r].endpoint = endpoint
    /\ requests[r].did_commit /\ ~requests[r].event_error
\* the events of a request on one topic
EmittedOn(r, topic) ==
    {i \in 1..Len(requests[r].emitted) : requests[r].emitted[i].topic = topic}
EmittedOfType(r, type) ==
    {i \in 1..Len(requests[r].emitted) : requests[r].emitted[i].type = type}
\* exactly one task event, of the given type
OneTaskEvent(r, type) ==
    /\ Cardinality(EmittedOn(r, TOPIC_TASK_EVENTS)) = 1
    /\ EmittedOfType(r, type) = EmittedOn(r, TOPIC_TASK_EVENTS)
\* exactly one sync event, with the given changed_fields
OneSyncEvent(r, changed_fields) ==
    /\ Cardinality(EmittedOn(r, TOPIC_TASK_UPDATES)) = 1
    /\ \A i \in EmittedOn(r, TOPIC_TASK_UPDATES) :
          requests[r].emitted[i].data = changed_fields
\* one reminder event of the given type and time if `wanted`, else none
ReminderEventIff(r, wanted, type, reminder_time) ==
    /\ Cardinality(EmittedOn(r, TOPIC_REMINDERS)) = (IF wanted THEN 1 ELSE 0)
    /\ \A i \in EmittedOn(r, TOPIC_REMINDERS) :
          /\ requests[r].emitted[i].type = type
          /\ requests[r].emitted[i].data.reminder_time = reminder_time
PayloadOf(r) ==
    requests[r].emitted[CHOOSE i \in EmittedOn(r, TOPIC_TASK_EVENTS) : TRUE].data

\* C13: a create_task that committed emits one task.created event, one sync
\* event {action: created, title, status}, and one reminder.schedule with
\* reminder_time = due_date - 15 min exactly when the due date is present and
\* that time is later than now.
C13_CreateEmission ==
    \A r \in RequestIds :
        RanEventBlock(r, "create_task") =>
           LET t == requests[r].committed
           IN /\ OneTaskEvent(r, TaskEventType.CREATED)
              /\ OneSyncEvent(r, [action |-> "created", title |-> t.title,
                                  status |-> t.status])
              /\ ReminderEventIff(r, t.due_date # NoDate /\ t.due_date - 15 > Now,
                                  ReminderEventType.SCHEDULE, t.due_date - 15)

\* a task due in ten minutes was created and no reminder event went out
C13_Witness ==
    \E r \in RequestIds :
        /\ RanEventBlock(r, "create_task")
        /\ requests[r].committed.due_date = DueSoon
        /\ Len(requests[r].emitted) = 2

\* a task due in an hour was created and one reminder.schedule went out
CreateSchedulesReminder ==
    \E r \in RequestIds :
        /\ RanEventBlock(r, "create_task")
        /\ requests[r].committed.due_date = DueLater
        /\ Len(requests[r].emitted) = 3

\* the attributes of the task an update_task request changed
ChangedAttributes(r) ==
    {f \in {"title", "due_date"} : requests[r].committed[f] # requests[r].loaded[f]}
\* the attributes an update_task request provided
ProvidedAttributes(r) ==
    {f \in {"title", "due_date"} : f \in DOMAIN requests[r].emitted[2].data}

\* C14: an update_task that committed emits one task.updated event whose
\* changed_fields are exactly the attributes whose values changed, one sync
\* event with exactly those attributes' values, and one reminder.schedule
\* exactly when due_date changed and the new reminder time is in the future.
C14_UpdateEmission ==
    \A r \in RequestIds :
        RanEventBlock(r, "update_task") =>
           LET t == requests[r].committed
           IN /\ OneTaskEvent(r, TaskEventType.UPDATED)
              /\ SeqToSet(PayloadOf(r).changed_fields) = ChangedAttributes(r)
              /\ OneSyncEvent(r, [f \in ChangedAttributes(r) |-> t[f]])
              /\ ReminderEventIff(r, "due_date" \in ChangedAttributes(r)
                                       /\ t.due_date - 15 > Now,
                                  ReminderEventType.SCHEDULE, t.due_date - 15)

\* what update_task does emit: the same with the attributes the request
\* provided in place of the attributes that changed
UpdateEmitsProvidedFields ==
    \A r \in RequestIds :
        RanEventBlock(r, "update_task") =>
           LET t == requests[r].committed
               provided == ProvidedAttributes(r)
           IN /\ OneTaskEvent(r, TaskEventType.UPDATED)
              /\ SeqToSet(PayloadOf(r).changed_fields) = provided
              /\ ChangedAttributes(r) \subseteq provided
              /\ OneSyncEvent(r, [f \in provided |-> t[f]])
              /\ ReminderEventIff(r, "due_date" \in provided /\ t.due_date - 15 > Now,
                                  ReminderEventType.SCHEDULE, t.due_date - 15)

\* C15: a toggle that committed emits task.completed when the task is now
\* completed and task.updated when it is pending again, with changed_fields
\* ["status"]; one sync event {status}; and reminder.cancel exactly when the
\* task is now completed and has a due date.
C15_ToggleEmission ==
    \A r \in RequestIds :
        RanEventBlock(r, "toggle_task_completion") =>
           LET t == requests[r].committed
               completed == t.status = TaskStatus.COMPLETED
           IN /\ t.status # requests[r].loaded.status
              /\ OneTaskEvent(r, IF completed THEN TaskEventType.COMPLETED
                                 ELSE TaskEventType.UPDATED)
              /\ PayloadOf(r).changed_fields = <<"status">>
              /\ OneSyncEvent(r, [status |-> t.status])
              /\ ReminderEventIff(r, completed /\ t.due_date # NoDate,
                                  ReminderEventType.CANCEL, t.due_date)

\* a completed task was toggled back to pending
C15_Witness ==
    \E r \in RequestIds :
        /\ RanEventBlock(r, "toggle_task_completion")
        /\ requests[r].loaded.status = TaskStatus.COMPLETED
        /\ requests[r].committed.status = TaskStatus.PENDING
        /\ Len(requests[r].emitted) = 2

\* a pending task with a due date was completed and its reminder cancelled
ToggleCancelsReminder ==
    \E r \in RequestIds :
        /\ RanEventBlock(r, "toggle_task_completion")
        /\ requests[r].committed.status = TaskStatus.COMPLETED
        /\ requests[r].committed.due_date # NoDate
        /\ Len(requests[r].emitted) = 3

\* C16: a delete that committed emits one task.deleted event whose payload is
\* the task as it was before the deletion, one sync event {action: deleted},
\* and reminder.cancel exactly when the task had a due date.
C16_DeleteEmission ==
    \A r \in RequestIds :
        RanEventBlock(r, "delete_task") =>
           LET t == requests[r].loaded
           IN /\ requests[r].task_id \notin DOMAIN task_rows
              /\ OneTaskEvent(r, TaskEventType.DELETED)
              /\ PayloadOf(r) = TaskEventPayload(t.title, t.status, t.due_date,
                                                 t.recurrence, << >>)
              /\ OneSyncEvent(r, [action |-> "deleted"])
              /\ ReminderEventIff(r, t.due_date # NoDate,
                                  ReminderEventType.CANCEL, t.due_date)

\* a task with a due date was deleted
C16_Witness ==
    \E r \in RequestIds :
        /\ RanEventBlock(r, "delete_task")
        /\ requests[r].loaded.due_date # NoDate
        /\ requests[r].loaded.title # ""
        /\ Len(requests[r].emitted) = 3

\* a task without a due date was deleted
DeleteWithoutDueDate ==
    \E r \in RequestIds :
        /\ RanEventBlock(r, "delete_task")
        /\ requests[r].loaded.due_date = NoDate
        /\ Len(requests[r].emitted) = 2


(***************************************************************************)
(* Claims on the audit service's error handling (SpecAudit)                *)
(***************************************************************************)
AnsweredMalformed(d) ==
    /\ deliveries[d].pc = "done"
    /\ deliveries[d].event \in MalformedAuditEvents

\* C17: every malformed event delivered to /events/task-events (id, type,
\* time or data.user_id missing, id or time unparseable) is answered with
\* HTTP 200 and writes no audit row.
C17_MalformedAcknowledged ==
    \A d \in DeliveryIds :
        AnsweredMalformed(d) =>
           /\ deliveries[d].status_code = 200
           /\ ~deliveries[d].wrote
           /\ RowsFor(deliveries[d].event.id) = {}

\* what the service does: a malformed event writes no row; it is answered
\* with 200 when the body has the keys id, source, type and time, and with 422
\* when one of them is absent
MalformedAnswer ==
    \A d \in DeliveryIds :
        AnsweredMalformed(d) =>
           /\ ~deliveries[d].wrote /\ ~deliveries[d].passed_check
           /\ deliveries[d].status_code =
                 (IF Absent \in {deliveries[d].event.id, deliveries[d].event.type,
                                 deliveries[d].event.time}
                  THEN 422 ELSE 200)

\* an event with an empty data.user_id was acknowledged
MalformedAcknowledged ==
    \E d \in DeliveryIds :
        /\ AnsweredMalformed(d)
        /\ deliveries[d].event.data.user_id = ""
        /\ deliveries[d].status_code = 200

\* C18: write_audit_log makes at most 3 attempts, sleeping 1s after the first
\* and 5s after the second transient error and never 25s; after a third
\* transient error it reports failure and the endpoint still answers 200; an
\* attempt that stores the row ends the loop with exactly one row written.
C18_AuditRetryPolicy ==
    \A d \in DeliveryIds :
        LET rec == deliveries[d]
        IN /\ rec.attempt + 1 <= 3
           /\ rec.slept \in {<< >>, <<1>>, <<1, 5>>}
           /\ Len(rec.slept) = rec.attempt + (IF rec.pc = "sleep" THEN 1 ELSE 0)
           /\ rec.gave_up =>
                 /\ rec.attempt + 1 = 3 /\ rec.slept = <<1, 5>>
                 /\ rec.pc = "done" /\ rec.returned /\ ~rec.success
                 /\ rec.status_code = 200 /\ ~rec.wrote
           /\ rec.wrote =>
                 /\ rec.pc = "done" /\ rec.success /\ rec.status_code = 200
                 /\ Cardinality(RowsFor(rec.event.id)) = 1

\* three attempts met a transient error and the delivery was acknowledged
C18_Witness ==
    \E d \in DeliveryIds :
        /\ deliveries[d].gave_up
        /\ deliveries[d].status_code = 200

\* the third attempt stored the row
AuditThirdAttemptStores ==
    \E d \in DeliveryIds :
        /\ deliveries[d].wrote
        /\ deliveries[d].slept = <<1, 5>>


(***************************************************************************)
(* Claims on the recurring-task service (SpecConsumers, SpecCalc)          *)
(***************************************************************************)
RecurrencePatterns == {"daily", "weekly", "monthly", "yearly"}

UnknownPatternNoRequest ==
    \E d \in RecIds :
        /\ recur[d].pc = "done" /\ recur[d].create_calls = 0
        /\ recur[d].event.type = "com.todo.task.completed"
        /\ recur[d].event.data.payload.recurring_pattern = "hourly"

\* the number of the day, counted from 1 January of year 1
DaysBeforeYear(y) == (y - 1) * 365 + (y - 1) \div 4 - (y - 1) \div 100 + (y - 1) \div 400
RECURSIVE DaysBeforeMonth(_, _)
DaysBeforeMonth(y, m) ==
    IF m = 1 THEN 0 ELSE DaysBeforeMonth(y, m - 1) + DaysInMonth(y, m - 1)
Ordinal(dt) == DaysBeforeYear(dt.y) + DaysBeforeMonth(dt.y, dt.m) + dt.d
\* the day of month `day` in the month (y, m), or that month's last day
Clamped(y, m, day, hh) ==
    Date(y, m, CHOOSE x \in 1..31 :
                  /\ x <= DaysInMonth(y, m) /\ x <= day
                  /\ \A z \in 1..31 : z <= DaysInMonth(y, m) /\ z <= day => z <= x,
         hh)
Returned == calc.pc = "returned"
ReturnedNone == ~calc.result.raised /\ ~calc.result.value.present
ReturnedDate(dt) == ~calc.result.raised /\ calc.result.value = DueIso(dt)

\* C20: for a parseable due date d, calculate_next_due_date returns d + 1 day
\* for daily, d + 7 days for weekly, the same day one month or one year later
\* clamped to the target month's last day for monthly and yearly, at the same
\* time of day; it returns no date for a missing or unparseable due date and
\* for "none" or an unknown pattern; patterns match in any letter case.
C20_NextDueDate ==
    Returned =>
       LET d == calc.current_due_date.date
           pattern == calc.pattern
           next == calc.result.value.date
       IN IF ~calc.current_due_date.present \/ ~calc.current_due_date.iso
          THEN ReturnedNone
          ELSE /\ pattern \in {"daily", "DAILY"} =>
                     /\ ~calc.result.raised /\ calc.result.value.iso
                     /\ Ordinal(next) = Ordinal(d) + 1 /\ next.hh = d.hh
                     /\ next.d <= DaysInMonth(next.y, next.m)
               /\ pattern \in {"weekly", "Weekly"} =>
                     /\ ~calc.result.raised /\ calc.result.value.iso
                     /\ Ordinal(next) = Ordinal(d) + 7 /\ next.hh = d.hh
                     /\ next.d <= DaysInMonth(next.y, next.m)
               /\ pattern \in {"monthly", "Monthly"} =>
                     ReturnedDate(IF d.m = 12 THEN Clamped(d.y + 1, 1, d.d, d.hh)
                                  ELSE Clamped(d.y, d.m + 1, d.d, d.hh))
               /\ pattern \in {"yearly", "YEARLY"} =>
                     ReturnedDate(Clamped(d.y + 1, d.m, d.d, d.hh))
               /\ pattern \in {"none", "hourly"} => ReturnedNone
               /\ (d = Date(2024, 1, 31, 10) /\ pattern = "monthly") =>
                     next = Date(2024, 2, 29, 10)
               /\ (d = Date(2024, 2, 29, 10) /\ pattern = "yearly") =>
                     next = Date(2025, 2, 28, 10)

\* 2024-01-31T10:00 monthly gave 2024-02-29T10:00
C20_Witness ==
    /\ Returned /\ calc.pattern = "monthly"
    /\ calc.current_due_date = DueIso(Date(2024, 1, 31, 10))
    /\ calc.result.value = DueIso(Date(2024, 2, 29, 10))

\* 2024-02-29T10:00 yearly gave 2025-02-28T10:00
LeapDayYearly ==
    /\ Returned /\ calc.pattern = "yearly"
    /\ calc.current_due_date = DueIso(Date(2024, 2, 29, 10))
    /\ calc.result.value = DueIso(Date(2025, 2, 28, 10))

\* an upper-case pattern gave a date
UpperCasePattern ==
    /\ Returned /\ calc.pattern = "DAILY"
    /\ calc.result.value.iso


(***************************************************************************)
(* Claims on the recurring-task service's failures (SpecConsumers)         *)
(***************************************************************************)
\* C21: create_next_task_occurrence sends at most 3 create requests, sleeping
\* 1s and then 5s between them; a 4xx answer of any status ends the attempts
\* with failure; a 201 ends them with success.
C21_CreateRetryPolicy ==
    \A d \in RecIds :
        LET r == recur[d]
        IN /\ r.create_calls <= 3
           /\ r.slept \in {<< >>, <<1>>, <<1, 5>>}
           /\ r.rejected # "" =>
                 r.pc = "done" /\ r.status = "failed" /\ r.created = 0
           /\ r.created > 0 =>
                 r.pc = "done" /\ r.status = "processed" /\ r.created = 1

\* what the loop does: the same with 400 and 422 as the only statuses that
\* end the attempts; a 404 is slept on and retried like a 5xx
CreateRetriesAllBut400And422 ==
    \A d \in RecIds :
        LET r == recur[d]
        IN /\ r.create_calls <= 3
           /\ r.slept \in {<< >>, <<1>>, <<1, 5>>}
           /\ r.create_calls = Len(r.slept) + (IF r.pc \in {"posting", "done"} /\ r.task_data # NoTaskData THEN 1 ELSE 0)
           /\ r.rejected \in {"400", "422"} =>
                 r.pc = "done" /\ r.status = "failed" /\ r.created = 0
           /\ r.created > 0 =>
                 r.pc = "done" /\ r.status = "processed" /\ r.created = 1

\* a create request answered with 404 was followed by a second request
NotFoundRetried ==
    \E d \in RecIds : recur[d].rejected = "404" /\ recur[d].pc = "sleeping"

\* three create requests failed
CreateExhausted(d) ==
    /\ recur[d].pc = "done" /\ recur[d].status = "failed"
    /\ recur[d].create_calls = 3

\* C22: when the creation has failed after three requests the event id is not
\* in the processed set and the delivery is not acknowledged with a 200.
C22_FailureLeftForRedelivery ==
    \A d \in RecIds :
        CreateExhausted(d) =>
           /\ (recur[d].event.id \in _processed_events =>
                  \E d2 \in RecIds : recur[d2].event.id = recur[d].event.id
                                     /\ recur[d2].created > 0)
           /\ recur[d].status_code # 200

\* what the service does: the id stays out of the processed set unless another
\* delivery of the event created the task, and the answer is 200 "failed"
FailureAcknowledged ==
    \A d \in RecIds :
        CreateExhausted(d) =>
           /\ (recur[d].event.id \in _processed_events =>
                  \E d2 \in RecIds : recur[d2].event.id = recur[d].event.id
                                     /\ recur[d2].created > 0)
           /\ recur[d].status_code = 200

\* a redelivery of an event whose creation had failed sent a create request
FailedEventRetriedOnRedelivery ==
    \E d, d2 \in RecIds :
        /\ d # d2 /\ CreateExhausted(d)
        /\ recur[d2].event.id = recur[d].event.id
        /\ recur[d2].create_calls > 0


(***************************************************************************)
(* Claims on the reminder jobs (SpecConsumers)                             *)
(***************************************************************************)
\* the deliveries of events of one type for a task whose request the jobs API
\* carried out
Carried(type, task_id) ==
    {d \in RemIds : /\ rem[d].event.type = type
                    /\ rem[d].event.data.task_id = task_id
                    /\ rem[d].job_done = 1}
JobsOfTask(task_id) == {n \in DOMAIN jobs : jobs[n].data.task_id = task_id}
ReminderTasks == {"t1"}

\* C23: once schedule events, and no cancel event, have been processed for a
\* task, one job exists for the task, named reminder-{task_id}, with the
\* reminder_time and payload of the schedule event processed last; the state
\* written for the task has status "scheduled".
C23_RescheduleReplaces ==
    \A t \in ReminderTasks :
        LET S == Carried("com.todo.reminder.schedule", t)
            last == CHOOSE d \in S : \A d2 \in S : rem[d2].posted <= rem[d].posted
            data == rem[last].event.data
            deleting == \E d \in RemIds : /\ rem[d].event.type = "com.todo.reminder.cancel"
                                          /\ rem[d].event.data.task_id = t
        IN (S # {} /\ ~deleting) =>
              /\ JobsOfTask(t) = {<<"reminder", t>>}
              /\ jobs[<<"reminder", t>>] =
                    [schedule |-> data.reminder_time,
                     data |-> [task_id |-> t, user_id |-> data.user_id,
                               due_date |-> data.due_date],
                     repeats |-> 0]
              /\ (\E d \in S : rem[d].saved) => t \in DOMAIN reminder_state
              /\ t \in DOMAIN reminder_state =>
                    reminder_state[t].status = "scheduled"

\* two schedule events with different times were processed for one task
C23_Witness ==
    \E d1, d2 \in RemIds :
        /\ rem[d1].pc = "done" /\ rem[d2].pc = "done"
        /\ rem[d1].event.id = "r1" /\ rem[d2].event.id = "r3"
        /\ rem[d1].posted = 1 /\ rem[d2].posted = 2
        /\ rem[d1].saved /\ rem[d2].saved

\* C24: a reminder.cancel whose DELETE the jobs API answers with 404 raises no
\* error, deletes nothing, writes state "cancelled" and records the event id;
\* a DELETE answered with 204 removes the task's job.
C24_CancelAbsentJob ==
    /\ [](\A d \in RemIds :
            rem[d].delete_status = 404 =>
               /\ ~rem[d].raised
               /\ rem[d].pc \in {"save_cancelled", "done"}
               /\ rem[d].pc = "done" =>
                     /\ rem[d].status_code = 200 /\ rem[d].status = "success"
                     /\ rem[d].event.id \in processed_event_ids)
    /\ [][\A d \in RemIds :
            LET t == rem[d].event.data.task_id
            IN /\ (rem[d].pc = "job_delete" /\ rem'[d].delete_status = 404) =>
                     jobs' = jobs
               /\ (rem[d].pc = "job_delete" /\ rem'[d].delete_status = 204) =>
                     /\ JobsOfTask(t) # {} /\ rem'[d].pc = "save_cancelled"
                     /\ DOMAIN jobs' = DOMAIN jobs \ JobsOfTask(t)
               /\ (rem[d].pc = "save_cancelled" /\ rem'[d].pc = "done") =>
                     IF rem'[d].saved
                     THEN reminder_state'[t].status = "cancelled"
                     ELSE reminder_state' = reminder_state]_vars

\* a cancel event for a task that never had a job was processed
C24_Witness ==
    \E d \in RemIds :
        /\ rem[d].pc = "done" /\ rem[d].delete_status = 404
        /\ rem[d].saved /\ rem[d].event.id \in processed_event_ids
        /\ reminder_state["t1"].status = "cancelled"

\* a cancel event removed the job of its task
CancelDeletesJob ==
    \E d \in RemIds :
        /\ rem[d].pc = "done" /\ rem[d].delete_status = 204
        /\ jobs = << >>


(***************************************************************************)
(* Claims on the delivery of due reminders (SpecFire, SpecNotifier)        *)
(***************************************************************************)
SendsOn(channel) == {i \in 1..Len(fire.sends) : fire.sends[i].channel = channel}
Succeeded == {i \in 1..Len(fire.sends) : fire.sends[i].ok}
FireEnded == fire.pc = "done" /\ ~fire.job_data.empty

\* C25: send_reminder_notification attempts email once exactly when "email"
\* is a channel and user_email is present, and push once per device token
\* exactly when "push" is a channel, whatever the other attempts returned; it
\* then writes {status: "sent", success_count, total_count} with total_count
\* the attempts made and success_count those that succeeded.
C25_DeliveryAccounting ==
    FireEnded =>
       LET data == fire.job_data
           email == "email" \in data.notification_channels /\ data.user_email # ""
           push == "push" \in data.notification_channels
       IN /\ Cardinality(SendsOn("email")) = (IF email THEN 1 ELSE 0)
          /\ \A i \in SendsOn("email") : fire.sends[i].to = data.user_email
          /\ Cardinality(SendsOn("push")) = (IF push THEN Len(data.device_tokens) ELSE 0)
          /\ push => \A k \in 1..Len(data.device_tokens) :
                        \E i \in SendsOn("push") :
                           /\ fire.sends[i].to = data.device_tokens[k]
                           /\ i = k + Cardinality(SendsOn("email"))
          /\ fire.written.status = "sent"
          /\ fire.written.total_count = Len(fire.sends)
          /\ fire.written.success_count = Cardinality(Succeeded)
          /\ fire.written.success_count <= fire.written.total_count
          /\ fire.saved => reminder_state[fire.task_id] = fire.written
          /\ fire.status_code = 200 /\ fire.status = "success"

\* the email failed, one of two pushes succeeded, and 1 of 3 was recorded
C25_Witness ==
    /\ FireEnded /\ fire.saved
    /\ Len(fire.sends) = 3 /\ ~fire.sends[1].ok /\ ~fire.sends[2].ok /\ fire.sends[3].ok
    /\ reminder_state["t1"].status = "sent"
    /\ reminder_state["t1"].success_count = 1
    /\ reminder_state["t1"].total_count = 3

\* "email" was a channel but no address was known: no email attempt
NoAddressNoEmail ==
    /\ FireEnded /\ "email" \in fire.job_data.notification_channels
    /\ fire.job_data.user_email = "" /\ SendsOn("email") = {}

Transient == {"5xx", "NetworkError", "Unavailable"}
Permanent == {"4xx", "InvalidRegistration", "NotRegistered"}
LastOutcome == notifier.outcomes[Len(notifier.outcomes)]
\* at most 3 attempts, sleeps of 1s and 5s after transient failures, no
\* attempt after a permanent failure, False after the third transient failure
NotifierRetries ==
    /\ Len(notifier.outcomes) <= 3
    /\ notifier.slept \in {<< >>, <<1>>, <<1, 5>>}
    /\ \A i \in 1..Len(notifier.outcomes) :
          i < Len(notifier.outcomes) => notifier.outcomes[i] \in Transient
    /\ Len(notifier.slept) =
          Cardinality({i \in 1..Len(notifier.outcomes) :
                          i < 3 /\ notifier.outcomes[i] \in Transient})
    /\ (notifier.outcomes # << >> /\ LastOutcome \in Permanent) =>
          notifier.pc = "returned" /\ notifier.result = "False"
    /\ (Len(notifier.outcomes) = 3 /\ LastOutcome \in Transient) =>
          /\ notifier.pc = "returned" /\ notifier.result = "False"
          /\ notifier.slept = <<1, 5>>

\* C26 as stated: ... and the call returns True only for an attempt the
\* provider accepted.
C26_TrueOnlyWhenAccepted ==
    /\ NotifierRetries
    /\ notifier.result = "True" =>
          notifier.outcomes # << >> /\ LastOutcome = "2xx"

\* C26 as amended: ... and the call returns True only for an attempt the
\* provider accepted or, with no provider key configured, without any attempt.
C26_NotifierRetryPolicy ==
    /\ NotifierRetries
    /\ notifier.result = "True" =>
          IF notifier.configured
          THEN notifier.outcomes # << >> /\ LastOutcome = "2xx"
          ELSE notifier.outcomes = << >>
    /\ (notifier.pc = "returned" /\ ~notifier.configured) => notifier.result = "True"

\* three transient failures: two sleeps, then False
C26_Witness ==
    /\ notifier.pc = "returned" /\ notifier.result = "False"
    /\ Len(notifier.outcomes) = 3 /\ notifier.slept = <<1, 5>>

\* a client error on the second attempt ended the call
ClientErrorEndsCall ==
    /\ notifier.pc = "returned" /\ notifier.outcomes = <<"5xx", "4xx">>

\* mock mode returned True
MockModeTrue ==
    /\ notifier.pc = "returned" /\ ~notifier.configured /\ notifier.result = "True"


(***************************************************************************)
(* Claims on the sync service (SpecRegistry, SpecSync)                     *)
(***************************************************************************)
Registered(u) ==
    IF u \in DOMAIN active_connections THEN active_connections[u] ELSE {}

\* C27: after any sequence of connect and disconnect calls the set registered
\* for each user is exactly the connections connected for that user and not
\* since disconnected, no user key maps to an empty set, and
\* get_connection_count is the sum of the sizes of the per-user sets.
C27_RegistryTracking ==
    /\ DOMAIN active_connections \subseteq SyncUsers
    /\ \A u \in SyncUsers : Registered(u) = {w \in WebSockets : <<u, w>> \in live}
    /\ \A u \in DOMAIN active_connections : active_connections[u] # {}
    /\ get_connection_count(active_connections) = Cardinality(live)

\* Connect(u, c1); Connect(u, c2); Disconnect(u, c1) left exactly {c2}
C27_Witness ==
    /\ last_call = [op |-> "disconnect", user_id |-> "u1", websocket |-> 1,
                    changed |-> TRUE]
    /\ Registered("u1") = {2}
    /\ get_connection_count(active_connections) = 1

\* removing a user's last connection removed the key, another user's stays
LastConnectionRemovesKey ==
    /\ last_call.op = "disconnect" /\ last_call.changed
    /\ last_call.user_id \notin DOMAIN active_connections
    /\ DOMAIN active_connections # {}

BroadcastCalled == bc.pc \in {"idle", "done"} /\ bc' # bc
BroadcastEnds == bc.pc = "sending" /\ bc'.pc = "done"
SendFailed(b) == {w \in WebSockets : b.sends[w] > 0} \ b.succeeded

\* C28: broadcast_to_user(u, m) sends m exactly once to every connection
\* registered for u when the call starts; for a user with no registered
\* connections it sends nothing, raises no error and leaves the registry
\* without an entry for that user.
C28_BroadcastDelivery ==
    /\ [](/\ \A w \in WebSockets :
               /\ bc.sends[w] <= 1
               /\ bc.sends[w] = 1 => w \in bc.at_start
          /\ bc.pc = "done" => \A w \in bc.at_start : bc.sends[w] = 1
          /\ ~bc.raised)
    /\ [][(BroadcastCalled /\ bc'.at_start = {}) =>
             /\ bc'.pc = "done"
             /\ active_connections' = active_connections
             /\ bc'.user_id \notin DOMAIN active_connections']_vars

\* a broadcast reached both connections of a user
C28_Witness ==
    /\ bc.pc = "done" /\ bc.at_start = {1, 2}
    /\ bc.sends[1] = 1 /\ bc.sends[2] = 1

\* a broadcast to a user without connections, while another user has one
BroadcastToAbsentUser ==
    /\ bc.pc = "done" /\ bc.at_start = {}
    /\ bc.user_id \notin DOMAIN active_connections
    /\ DOMAIN active_connections # {}

\* C29: by the end of a broadcast every connection whose send failed is out of
\* the registry and every connection whose send succeeded is still in it; a
\* failing connection does not keep the message from the remaining ones; the
\* broadcast raises no error.
C29_SelfHealingBroadcast ==
    /\ [](/\ bc.pc = "done" => \A w \in bc.connections : bc.sends[w] = 1
          /\ ~bc.raised)
    /\ [][/\ (bc.pc = "sending" /\ bc'.pc = "sending" /\ bc' # bc) =>
                active_connections' = active_connections
          /\ BroadcastEnds =>
                /\ (IF bc.user_id \in DOMAIN active_connections'
                    THEN active_connections'[bc.user_id] ELSE {})
                      = Registered(bc.user_id) \ SendFailed(bc')
                /\ \A u \in SyncUsers \ {bc.user_id} :
                      /\ u \in DOMAIN active_connections' <=>
                            u \in DOMAIN active_connections
                      /\ u \in DOMAIN active_connections =>
                            active_connections'[u] = active_connections[u]]_vars

\* of two connections one failed and was removed; its handler still runs
C29_Witness ==
    /\ bc.pc = "done" /\ bc.connections = {1, 2}
    /\ bc.succeeded = {2} /\ bc.sends[1] = 1
    /\ Registered(bc.user_id) = {2}
    /\ ep[1].pc = "open"

\* every send failed: the user's key is gone
AllSendsFailed ==
    /\ bc.pc = "done" /\ bc.connections = {1, 2} /\ bc.succeeded = {}
    /\ bc.user_id \notin DOMAIN active_connections

TokenVerifies(token) ==
    /\ secret_key \notin {NotLoaded, NoSecret}
    /\ token.signature = "good" /\ token.exp # "past" /\ token.sub # ""

\* C30: a connection is in the registry only after its token was verified
\* (signature and expiry) and only under the token's subject; a connection
\* whose token fails verification is closed with code 1008 and is never in
\* the registry.
C30_AuthenticationGate ==
    /\ \A u \in DOMAIN active_connections : \A w \in active_connections[u] :
          TokenVerifies(ep[w].token) /\ ep[w].token.sub = u
    /\ \A w \in WebSockets :
          (ep[w].pc # "new" /\ ~TokenVerifies(ep[w].token)) =>
             /\ ep[w].pc = "closed" /\ ep[w].close_code = 1008
             /\ \A u \in SyncUsers : w \notin Registered(u) /\ <<u, w>> \notin live
    /\ \A w \in WebSockets : ep[w].close_code = 1008 => ~TokenVerifies(ep[w].token)

\* an expired token was turned away while a verified one is registered under
\* its subject
C30_Witness ==
    \E w, x \in WebSockets :
       /\ ep[w].token.exp = "past" /\ ep[w].close_code = 1008
       /\ ep[x].token.sub = "u2" /\ Registered("u2") = {x}

\* a token with a wrong signature was turned away
BadSignatureClosed ==
    \E w \in WebSockets : ep[w].token.signature = "bad" /\ ep[w].close_code = 1008


(***************************************************************************)
(* Claims on the life of a reminder (SpecEmission, SpecConsumers)          *)
(***************************************************************************)
\* a toggle brought a task with a reminder time still ahead back to pending
Uncompleted(r) ==
    /\ RanEventBlock(r, "toggle_task_completion")
    /\ requests[r].loaded.status = TaskStatus.COMPLETED
    /\ requests[r].committed.status = TaskStatus.PENDING
    /\ requests[r].committed.due_date # NoDate
    /\ requests[r].committed.due_date - ReminderLead > Now

\* C37: a toggle from completed back to pending of a task whose reminder time
\* (due_date - 15 min) is still in the future emits a reminder.schedule.
C37_ReminderRestoredOnUncomplete ==
    \A r \in RequestIds :
        Uncompleted(r) => EmittedOfType(r, ReminderEventType.SCHEDULE) # {}

\* what the toggle does: un-completing emits no reminder event at all
UncompleteEmitsNoReminder ==
    \A r \in RequestIds :
        Uncompleted(r) => EmittedOn(r, TOPIC_REMINDERS) = {}

\* a task due later was completed and then toggled back to pending
UncompletedWithFutureReminder == \E r \in RequestIds : Uncompleted(r)

\* an update moved the due date to one whose reminder time is not ahead
DueDateMovedNear(r) ==
    /\ RanEventBlock(r, "update_task")
    /\ requests[r].loaded.due_date # NoDate
    /\ requests[r].loaded.due_date - ReminderLead > Now
    /\ requests[r].committed.due_date # NoDate
    /\ requests[r].committed.due_date # requests[r].loaded.due_date
    /\ ~(requests[r].committed.due_date - ReminderLead > Now)

\* C38: an update_task that changes due_date to a value whose reminder time
\* is not in the future emits a reminder.cancel for the reminder of the
\* previous due date.
C38_NoStaleReminderAfterDueDateChange ==
    \A r \in RequestIds :
        DueDateMovedNear(r) => EmittedOfType(r, ReminderEventType.CANCEL) # {}

\* what the update does: no reminder event at all, the job of the previous
\* due date is left as it is
DueDateMovedNearEmitsNoReminder ==
    \A r \in RequestIds :
        DueDateMovedNear(r) => EmittedOn(r, TOPIC_REMINDERS) = {}

\* a task due later was moved to a due date whose reminder time has passed
DueDateMovedNearHappens == \E r \in RequestIds : DueDateMovedNear(r)


\* the jobs API call of a reminder delivery raised
ReminderFailed(d) == rem[d].pc = "done" /\ rem[d].raised

\* C34: when the jobs API call of a reminder event raises, the event id is not
\* recorded as processed by that delivery and the delivery is not acknowledged
\* with 200, so that the transport redelivers it.
C34_ReminderFailureTriggersRetry ==
    \A d \in RemIds :
        ReminderFailed(d) =>
           /\ rem[d].status_code # 200
           /\ (rem[d].event.id \in processed_event_ids =>
                  \E d2 \in RemIds \ {d} :
                     /\ rem[d2].event.id = rem[d].event.id
                     /\ rem[d2].status = "success")

\* what the service does: the id is not recorded by that delivery, and the
\* route answers 200 {"status": "error"}
ReminderFailureAcknowledged ==
    \A d \in RemIds :
        ReminderFailed(d) =>
           /\ rem[d].status_code = 200 /\ rem[d].status = "error"
           /\ rem[d].job_done = 0
           /\ (rem[d].event.id \in processed_event_ids =>
                  \E d2 \in RemIds \ {d} :
                     /\ rem[d2].event.id = rem[d].event.id
                     /\ rem[d2].status = "success")

\* a schedule request failed, was acknowledged, and no job is pending
ScheduleFailedAndAcknowledged ==
    \E d \in RemIds :
        /\ ReminderFailed(d) /\ rem[d].event.type = ReminderEventType.SCHEDULE
        /\ rem[d].status_code = 200
        /\ rem[d].event.id \notin processed_event_ids
        /\ jobs = << >>

\* write_audit_log returned True
AuditReturnedTrue(d) ==
    /\ Ended(d)
    /\ deliveries[d].found_existing \/ deliveries[d].wrote \/ deliveries[d].conflict

\* C35: whenever write_audit_log returns True for an event_id, the audit_logs
\* table holds a row with that event_id, for every event type.
C35_AuditSuccessImpliesRow ==
    \A d \in DeliveryIds :
        AuditReturnedTrue(d) => RowsFor(deliveries[d].event.id) # {}

\* what holds: True without a row is returned exactly for inserts that broke
\* a foreign key
AuditSuccessWithoutRowIsForeignKey ==
    \A d \in DeliveryIds :
        (AuditReturnedTrue(d) /\ RowsFor(deliveries[d].event.id) = {}) =>
           /\ deliveries[d].conflict
           /\ \/ deliveries[d].event.data.user_id \notin db_users
              \/ deliveries[d].event.data.task_id \notin db_tasks

\* a task.deleted event was reported written and no row exists
DeletedEventSuccessWithoutRow ==
    \E d \in DeliveryIds :
        /\ AuditReturnedTrue(d) /\ deliveries[d].success
        /\ deliveries[d].event.type = TaskEventType.DELETED
        /\ RowsFor(deliveries[d].event.id) = {}

\* the reminder events published for a task that was given a reminder and then
\* completed or deleted: one schedule and one cancel, each delivered and
\* processed
ScheduleAndCancelProcessed ==
    /\ \A d \in RemIds : rem[d].pc = "done"
    /\ {rem[d].event.id : d \in RemIds} = {"r1", "r2"}

\* C36: once the schedule and the cancel of a completed or deleted task have
\* each been delivered at least once, in any order, and processed, no pending
\* reminder job of the task remains.
C36_NoReminderSurvivesCancel ==
    ScheduleAndCancelProcessed => job_name("t1") \notin DOMAIN jobs

\* what holds: the job is gone when the jobs API carried out the delete after
\* the post
CancelAfterScheduleRemovesJob ==
    (/\ ScheduleAndCancelProcessed
     /\ \E ds, dc \in RemIds :
           /\ rem[ds].event.id = "r1" /\ rem[dc].event.id = "r2"
           /\ rem[ds].posted > 0 /\ rem[dc].posted > rem[ds].posted)
       => job_name("t1") \notin DOMAIN jobs

\* the cancel was processed first (404, nothing to delete), the schedule
\* after it: both deliveries succeeded and the job is pending
CancelBeforeScheduleLeavesJob ==
    /\ ScheduleAndCancelProcessed
    /\ \A d \in RemIds : rem[d].status = "success" /\ ~rem[d].raised
    /\ \E dc \in RemIds : rem[dc].event.id = "r2" /\ rem[dc].delete_status = 404
    /\ job_name("t1") \in DOMAIN jobs


(***************************************************************************)
(* Claims on the sync service's events and on concurrency                  *)
(***************************************************************************)
\* how often a websocket was sent the message of an event id
ReceivedCount(w, id) ==
    Cardinality({i \in 1..Len(sync_log) :
                    sync_log[i].event.id = id /\ w \in sync_log[i].sent_to})

\* C31: the second delivery of a sync event (same id) succeeds without a second
\* broadcast, so each connection receives the event's message exactly once.
C31_SyncDuplicateNotBroadcast ==
    /\ \A i, j \in 1..Len(sync_log) :
          (i < j /\ sync_log[i].event = sync_log[j].event /\ sync_log[i].event.id # "")
             => sync_log[j].status_code = 200 /\ sync_log[j].sends = {}
    /\ \A w \in WebSockets, e \in SyncEvents : e.id # "" => ReceivedCount(w, e.id) <= 1

\* what the sync service does: every delivery that names a user is broadcast
\* to the connections the user has at that moment, a redelivery included
SyncEveryDeliveryBroadcast ==
    \A i \in 1..Len(sync_log) :
        /\ sync_log[i].status_code = 200
        /\ sync_log[i].sends =
              IF sync_log[i].event.data.user_id = "" THEN {} ELSE sync_log[i].at_start

\* one connection was sent the message of event s1 twice
SameEventReceivedTwice == \E w \in WebSockets : ReceivedCount(w, "s1") = 2

RemMalformed(e) ==
    \/ e.id = "" \/ e.type = "" \/ e.data.user_id = ""
    \/ e.type = ReminderEventType.SCHEDULE
          /\ (e.data.task_id = "" \/ e.data.reminder_time = NoTime)
    \/ e.type = ReminderEventType.CANCEL /\ e.data.task_id = ""
RecMalformed(e) == e.id = "" \/ e.type = "" \/ e.data.user_id = ""

\* C32: an event missing a required field is acknowledged with HTTP 200 and
\* causes no side effect, at the notification and at the recurring-task
\* consumer.
C32_MalformedAcknowledgedByConsumers ==
    /\ \A d \in RemIds :
          (rem[d].pc = "done" /\ RemMalformed(rem[d].event)) =>
             rem[d].status_code = 200 /\ rem[d].job_calls = 0
    /\ \A d \in RecIds :
          (recur[d].pc = "done" /\ RecMalformed(recur[d].event)) =>
             recur[d].status_code = 200 /\ recur[d].create_calls = 0

\* what the consumers do: the same, with 400 for a reminder event without a
\* type
MalformedAnswerOfConsumers ==
    /\ \A d \in RemIds :
          (rem[d].pc = "done" /\ RemMalformed(rem[d].event)) =>
             /\ rem[d].status_code = (IF rem[d].event.type = "" THEN 400 ELSE 200)
             /\ rem[d].job_calls = 0
    /\ \A d \in RecIds :
          (recur[d].pc = "done" /\ RecMalformed(recur[d].event)) =>
             recur[d].status_code = 200 /\ recur[d].create_calls = 0

\* a reminder event without a type was answered with 400
ReminderWithoutTypeRejected ==
    \E d \in RemIds :
        rem[d].pc = "done" /\ rem[d].event.type = "" /\ rem[d].status_code = 400

\* at the sync consumer an event without a user_id is acknowledged and not
\* broadcast
SyncMalformedAcknowledged ==
    \A i \in 1..Len(sync_log) :
        sync_log[i].event.data.user_id = "" =>
           sync_log[i].status_code = 200 /\ sync_log[i].sends = {}

BroadcastStep(b) == b.pc = "sending" /\ b' # b
\* the step in which a broadcast ends takes exactly the websockets it
\* collected out of the user's set and leaves no empty set behind
CleansUp(b) ==
    (b.pc = "sending" /\ b'.pc = "done") =>
       /\ (IF b.user_id \in DOMAIN active_connections'
           THEN active_connections'[b.user_id] ELSE {})
             = Registered(b.user_id) \ b'.disconnected
       /\ b'.disconnected = {w \in WebSockets : b'.sends[w] > 0} \ b'.succeeded
\* a broadcast iterates over the set as it was when the call began
IteratesSnapshot(b) ==
    /\ b.pc # "idle" => b.connections = b.at_start
    /\ \A w \in WebSockets : b.sends[w] = (IF w \in b.connections \ b.todo THEN 1 ELSE 0)
    /\ b.pc = "done" => b.todo = {}
    /\ ~b.raised

\* C33: under any interleaving of connects, disconnects and broadcasts a
\* broadcast iterates over the snapshot of the user's set taken when it began,
\* no operation fails because the set or the key changed meanwhile, and no
\* user key ever maps to an empty set.
C33_RegistryUnderConcurrency ==
    /\ [](/\ IteratesSnapshot(bc) /\ IteratesSnapshot(bc2)
          /\ \A u \in DOMAIN active_connections : active_connections[u] # {}
          /\ \A u \in SyncUsers : Registered(u) = {w \in WebSockets : <<u, w>> \in live})
    /\ [][CleansUp(bc) /\ CleansUp(bc2)]_vars

\* two broadcasts to one user are sending, over different snapshots
C33_Witness ==
    /\ bc.pc = "sending" /\ bc2.pc = "sending"
    /\ bc.user_id = bc2.user_id
    /\ bc.connections # bc2.connections

\* both broadcasts failed on the same websocket and both cleaned it up; the
\* user's key is gone
BothBroadcastsCleanUp ==
    /\ bc.pc = "done" /\ bc2.pc = "done"
    /\ bc.disconnected \cap bc2.disconnected # {}
    /\ bc.user_id \notin DOMAIN active_connections

\* C39: the message of a sync event with data.user_id = u is sent only to
\* connections registered under u, and the sets registered for other users
\* are left unchanged by the broadcast.
C39_BroadcastIsolation ==
    /\ [](/\ \A i \in 1..Len(sync_log) : \A w \in sync_log[i].sends :
                ep[w].user_id = sync_log[i].event.data.user_id
          /\ sync_ev # NoSyncEvent =>
                \A w \in WebSockets :
                   bc.sends[w] > 0 => ep[w].user_id = sync_ev.data.user_id)
    /\ [][BroadcastStep(bc) =>
             \A u \in SyncUsers \ {bc.user_id} :
                /\ u \in DOMAIN active_connections' <=> u \in DOMAIN active_connections
                /\ u \in DOMAIN active_connections =>
                      active_connections'[u] = active_connections[u]]_vars

\* an event of u2 reached u2's connection while u1 had one that got nothing
C39_Witness ==
    \E i \in 1..Len(sync_log) : \E w, x \in WebSockets :
       /\ sync_log[i].event.data.user_id = "u2"
       /\ sync_log[i].sent_to = {w}
       /\ ep[x].pc = "open" /\ ep[x].user_id = "u1" /\ x \in Registered("u1")
       /\ Len(sync_log) = 1

HandlerExits(w) == ep[w].pc = "open" /\ ep'[w].pc = "closed"
\* C40: a connection that websocket_endpoint registered is out of the
\* registry once its handler has returned, whatever ended the receive loop;
\* the exit takes the count back by the one the connect had added.
C40_CleanupOnHandlerExit ==
    /\ [](\A w \in WebSockets :
             (ep[w].pc = "closed" /\ ep[w].registered) =>
                \A u \in SyncUsers : w \notin Registered(u))
    /\ [][\A w \in WebSockets :
             /\ HandlerExits(w) =>
                   get_connection_count(active_connections') =
                      get_connection_count(active_connections)
                         - (IF w \in Registered(ep[w].user_id) THEN 1 ELSE 0)
             /\ (ep[w].pc = "accepting" /\ ep'[w].pc = "open") =>
                   get_connection_count(active_connections') =
                      get_connection_count(active_connections) + 1]_vars

\* a registered connection's handler has returned; another one is still there
C40_Witness ==
    \E w \in WebSockets :
       /\ ep[w].pc = "closed" /\ ep[w].registered
       /\ get_connection_count(active_connections) = 1

====
